---- MODULE Spec2Model ----
(***************************************************************************)
(* A model of asn1tools/c_source/oer.py: the OER C source generator.       *)
(*                                                                         *)
(* The module holds seven state machines, each with its own specification:*)
(*   SpecSort     sort_user_types_by_used_user_types (the dependency       *)
(*                orderer), one action per iteration of its outer loop;    *)
(*   SpecGenerate the walk of generate over the compiled types, followed   *)
(*                by the dependency orderer on the user types it made;     *)
(*   SpecLength   the length determinant written by the encoder and read   *)
(*                back by the decoder, and read from any input;            *)
(*   SpecInteger  encoder_append_integer and decoder_read_integer with the *)
(*                same width argument;                                     *)
(*   SpecRuntime  appends, reads and aborts on one encoder or decoder      *)
(*                context, in any order (encoder_alloc, decoder_free);     *)
(*   SpecCodec    the encode/decode bodies that the format_*_inner methods *)
(*                generate, run on the runtime primitives;                 *)
(*   SpecHelpers  generate_helpers' selection of runtime primitives.       *)
(***************************************************************************)
EXTENDS Integers, Sequences, FiniteSets, TLC

VARIABLES
    \* sort_user_types_by_used_user_types
    user_types,                  \* the argument: the units in base order
    reversed_sorted_user_types,  \* the working list
    next_user_type,              \* index of the unit the for loop visits next
    sort_pc,                     \* "loop", "returned" or "raised"
    sorted_user_types,           \* the value returned
    \* the runtime contexts (struct encoder_t, struct decoder_t)
    encoder,
    decoder,
    \* length determinant codec
    length,                      \* the uint32_t argument of the encoder
    decoded_length,              \* the uint32_t the decoder returned
    length_pc,                   \* "start", "encoded", "decoded"; "input", "read";
                                 \* "integer", "appended", "integer_read"
    width,                       \* the number_of_bytes argument of
                                 \* encoder_append_integer and decoder_read_integer
    \* calls of the runtime primitives
    last_alloc,                  \* size and result of the last encoder_alloc
    last_free,                   \* size and result of the last decoder_free
    read_buf,                    \* destination of decoder_read_bytes, when it
                                 \* was the last call
    read_value,                  \* the integer, bool or length read, when that
                                 \* was the last call
    call,                        \* "encode" or "decode": the call that owns the context
    \* one generated codec
    compiled_type,               \* the type the functions were generated for
    src_p,                       \* *src_p of the encode function
    dst_p,                       \* *dst_p of the decode function
    returned,                    \* the decode body ran "return;"
    codec_pc,                    \* "encode", "encoded", "round_trip"; "decode", "decoded"
    \* _Generator.generate and generate_helpers
    compiled,                    \* the compiled types of the schema
    definitions,                 \* the names whose call pattern the definitions text holds
    helpers,                     \* the definitions generate_helpers returned
    generate_pc                  \* "types", "helpers" or "done"

sortVars == <<user_types, reversed_sorted_user_types, next_user_type,
              sort_pc, sorted_user_types>>

ctxVars == <<encoder, decoder>>

lengthVars == <<length, decoded_length, length_pc, width>>

runtimeVars == <<last_alloc, last_free, read_buf, read_value, call>>

codecVars == <<compiled_type, src_p, dst_p, returned, codec_pc>>

generateVars == <<compiled, definitions, helpers, generate_pc>>

vars == <<sortVars, ctxVars, lengthVars, runtimeVars, codecVars, generateVars>>

----------------------------------------------------------------------------
(* Generic helpers.                                                        *)

Range(s) == {s[i] : i \in 1..Len(s)}

Reverse(s) == [i \in 1..Len(s) |-> s[Len(s) + 1 - i]]

\* list.insert(index, x) for 0 <= index <= len(list)
\* A slip: list[index] = x in place of list.insert(index, x).
ListInsert_overwrite(s, index, x) ==
    IF index < Len(s) THEN [s EXCEPT ![index + 1] = x] ELSE Append(s, x)

ListInsert(s, index, x) ==
    SubSeq(s, 1, index) \o <<x>> \o SubSeq(s, index + 1, Len(s))

Max(S) == CHOOSE x \in S : \A y \in S : y <= x

----------------------------------------------------------------------------
(* C integers.  A uint32_t is kept as its two 16-bit halves, since TLC's   *)
(* integers stop at 2^31 - 1: the value is hi * 65536 + lo.                *)

RECURSIVE BitAnd(_, _)
BitAnd(a, b) ==
    IF a = 0 \/ b = 0 THEN 0
    ELSE (a % 2) * (b % 2) + 2 * BitAnd(a \div 2, b \div 2)

RECURSIVE BitOr(_, _)
BitOr(a, b) ==
    IF a = 0 THEN b
    ELSE IF b = 0 THEN a
    ELSE ((a % 2) + (b % 2) - (a % 2) * (b % 2)) + 2 * BitOr(a \div 2, b \div 2)

U32(hi, lo) == [hi |-> hi, lo |-> lo]

\* value < hi * 65536 + lo
U32Less(value, hi, lo) == value.hi < hi \/ (value.hi = hi /\ value.lo < lo)

\* value > n for a constant n below 65536
U32Greater(value, n) == value.hi > 0 \/ value.lo > n

\* a | b
U32Or(a, b) == U32(BitOr(a.hi, b.hi), BitOr(a.lo, b.lo))

\* value >> 8, value >> 16, value >> 24
U32Shr8(value) == U32(value.hi \div 256, (value.hi % 256) * 256 + value.lo \div 256)

U32Shr16(value) == U32(0, value.hi)

U32Shr24(value) == U32(0, value.hi \div 256)

\* The conversions to uint8_t and to uint16_t keep the low bits.
ToU8(value) == value.lo % 256

ToU16(value) == value.lo

\* b << 8, b << 16, b << 24 for a byte b, as a uint32_t.  (0x83 << 24 and
\* buf[0] << 24 shift into the sign bit of an int; the compilers the
\* generated code is built with give the two's complement bit pattern.)
Shl8(b) == U32(0, b * 256)

Shl16(b) == U32(b, 0)

Shl24(b) == U32(b * 256, 0)

----------------------------------------------------------------------------
(* The runtime primitives.  A context is the struct of encoder_init and    *)
(* decoder_init (buf_p, size, pos); copied counts the bytes memcpy has      *)
(* moved into (encoder) or out of (decoder) buf_p, to observe the buffer   *)
(* accesses.                                                               *)

ENOMEM == 12

EOUTOFDATA == 500

EBADCHOICE == 501

EBADLENGTH == 502

NoContext == [buf_p |-> <<>>, size |-> 0, pos |-> 0, copied |-> 0]

CtxIdle == encoder = NoContext /\ decoder = NoContext

\* The first error is latched in size and pos, which encoder_get_result and
\* decoder_get_result return; a later abort changes nothing.
encoder_abort(self_p, error) ==
    IF self_p.size >= 0
    THEN [self_p EXCEPT !.size = -error, !.pos = -error]
    ELSE self_p

decoder_abort(self_p, error) ==
    IF self_p.size >= 0
    THEN [self_p EXCEPT !.size = -error, !.pos = -error]
    ELSE self_p

encoder_init(buf_p, size) == [buf_p |-> buf_p, size |-> size, pos |-> 0, copied |-> 0]

encoder_get_result(self_p) == self_p.pos

\* Returns the context and the position allocated (pos).
\* A slip: one byte more than the capacity granted.
encoder_alloc_one_past(self_p, size) ==
    IF self_p.pos + size <= self_p.size + 1
    THEN [self |-> [self_p EXCEPT !.pos = self_p.pos + size], pos |-> self_p.pos]
    ELSE [self |-> encoder_abort(self_p, ENOMEM), pos |-> -ENOMEM]

encoder_alloc(self_p, size) ==
    IF self_p.pos + size <= self_p.size
    THEN [self |-> [self_p EXCEPT !.pos = self_p.pos + size], pos |-> self_p.pos]
    ELSE [self |-> encoder_abort(self_p, ENOMEM), pos |-> -ENOMEM]

\* memcpy(&self_p->buf_p[pos], buf_p, size); buf_p[0] is element 1.
encoder_append_bytes(self_p, buf_p) ==
    LET size == Len(buf_p)
        a == encoder_alloc(self_p, size)
    IN IF a.pos < 0 THEN a.self
       ELSE [a.self EXCEPT
               !.buf_p = [i \in 1..Len(a.self.buf_p) |->
                            IF i > a.pos /\ i <= a.pos + size
                            THEN buf_p[i - a.pos] ELSE a.self.buf_p[i]],
               !.copied = a.self.copied + size]

\* value is a uint8_t.
encoder_append_integer_8(self_p, value) ==
    encoder_append_bytes(self_p, <<value>>)

\* value is a uint16_t; buf[0] = (value >> 8); buf[1] = value;
encoder_append_integer_16(self_p, value) ==
    encoder_append_bytes(self_p, <<value \div 256, value % 256>>)

\* value is a uint32_t.
encoder_append_integer_32(self_p, value) ==
    encoder_append_bytes(self_p, <<ToU8(U32Shr24(value)), ToU8(U32Shr16(value)),
                                   ToU8(U32Shr8(value)), ToU8(value)>>)

\* value is a uint64_t, kept as its two uint32_t halves [hi, lo].
encoder_append_integer_64(self_p, value) ==
    encoder_append_bytes(self_p,
        <<ToU8(U32Shr24(value.hi)), ToU8(U32Shr16(value.hi)),
          ToU8(U32Shr8(value.hi)), ToU8(value.hi),
          ToU8(U32Shr24(value.lo)), ToU8(U32Shr16(value.lo)),
          ToU8(U32Shr8(value.lo)), ToU8(value.lo)>>)

\* switch (number_of_bytes), value a uint32_t
encoder_append_integer(self_p, value, number_of_bytes) ==
    CASE number_of_bytes = 1 -> encoder_append_integer_8(self_p, ToU8(value))
      [] number_of_bytes = 2 -> encoder_append_integer_16(self_p, ToU16(value))
      [] number_of_bytes = 3 ->
           encoder_append_integer_16(
               encoder_append_integer_8(self_p, ToU8(U32Shr16(value))), ToU16(value))
      [] OTHER -> encoder_append_integer_32(self_p, value)

encoder_append_bool(self_p, value) ==
    encoder_append_integer_8(self_p, IF value THEN 255 ELSE 0)

\* A slip: the three-byte form without its 0x83 tag.
encoder_append_length_determinant_untagged(self_p, len) ==
    IF U32Less(len, 0, 128)
    THEN encoder_append_integer_8(self_p, ToU8(len))
    ELSE IF U32Less(len, 0, 256)
    THEN encoder_append_integer_8(encoder_append_integer_8(self_p, 129), ToU8(len))
    ELSE IF U32Less(len, 1, 0)
    THEN encoder_append_integer_16(encoder_append_integer_8(self_p, 130), ToU16(len))
    ELSE IF U32Less(len, 256, 0)
    THEN encoder_append_integer_32(self_p, len)
    ELSE encoder_append_integer_32(encoder_append_integer_8(self_p, 132), len)

encoder_append_length_determinant(self_p, len) ==
    IF U32Less(len, 0, 128)
    THEN encoder_append_integer_8(self_p, ToU8(len))
    ELSE IF U32Less(len, 0, 256)
    THEN encoder_append_integer_8(encoder_append_integer_8(self_p, 129), ToU8(len))
    ELSE IF U32Less(len, 1, 0)
    THEN encoder_append_integer_16(encoder_append_integer_8(self_p, 130), ToU16(len))
    ELSE IF U32Less(len, 256, 0)
    THEN encoder_append_integer_32(self_p, U32Or(len, Shl24(131)))
    ELSE encoder_append_integer_32(encoder_append_integer_8(self_p, 132), len)

decoder_init(buf_p, size) == [buf_p |-> buf_p, size |-> size, pos |-> 0, copied |-> 0]

decoder_get_result(self_p) == self_p.pos

\* Returns the context and the position freed (pos); the size_t return
\* value converts back to the same ssize_t in decoder_read_bytes.
decoder_free(self_p, size) ==
    IF self_p.pos + size <= self_p.size
    THEN [self |-> [self_p EXCEPT !.pos = self_p.pos + size], pos |-> self_p.pos]
    ELSE [self |-> decoder_abort(self_p, EOUTOFDATA), pos |-> -EOUTOFDATA]

\* A slip: the destination left as it is when decoder_free fails; it then
\* holds whatever it held, here the bytes at the start of the input.
decoder_read_bytes_no_memset(self_p, size) ==
    LET f == decoder_free(self_p, size)
    IN IF f.pos >= 0
       THEN [self |-> [f.self EXCEPT !.copied = f.self.copied + size],
             buf |-> [i \in 1..size |-> f.self.buf_p[f.pos + i]]]
       ELSE [self |-> f.self,
             buf |-> [i \in 1..size |->
                        IF i <= Len(f.self.buf_p) THEN 255 ELSE 0]]

\* A slip: memcpy whatever decoder_free returned.
decoder_read_bytes_unchecked(self_p, size) ==
    LET f == decoder_free(self_p, size)
    IN [self |-> [f.self EXCEPT !.copied = f.self.copied + size],
        buf |-> [i \in 1..size |->
                   IF f.pos + i \in 1..Len(f.self.buf_p)
                   THEN f.self.buf_p[f.pos + i] ELSE 0]]

\* Returns the context and the destination buffer (buf).
decoder_read_bytes(self_p, size) ==
    LET f == decoder_free(self_p, size)
    IN IF f.pos >= 0
       THEN [self |-> [f.self EXCEPT !.copied = f.self.copied + size],
             buf |-> [i \in 1..size |-> f.self.buf_p[f.pos + i]]]
       ELSE [self |-> f.self, buf |-> [i \in 1..size |-> 0]]

decoder_read_integer_8(self_p) ==
    LET r == decoder_read_bytes(self_p, 1)
    IN [self |-> r.self, value |-> r.buf[1]]

\* A slip: the two bytes taken least significant first.
decoder_read_integer_16_swapped(self_p) ==
    LET r == decoder_read_bytes(self_p, 2)
    IN [self |-> r.self, value |-> BitOr(r.buf[2] * 256, r.buf[1])]

\* (buf[0] << 8) | buf[1]
decoder_read_integer_16(self_p) ==
    LET r == decoder_read_bytes(self_p, 2)
    IN [self |-> r.self, value |-> BitOr(r.buf[1] * 256, r.buf[2])]

\* (buf[0] << 24) | (buf[1] << 16) | (buf[2] << 8) | buf[3]
decoder_read_integer_32(self_p) ==
    LET r == decoder_read_bytes(self_p, 4)
    IN [self |-> r.self,
        value |-> U32Or(U32Or(Shl24(r.buf[1]), Shl16(r.buf[2])),
                        U32Or(Shl8(r.buf[3]), U32(0, r.buf[4])))]

\* ((uint64_t)buf[0] << 56) | ... | (uint64_t)buf[7]
decoder_read_integer_64(self_p) ==
    LET r == decoder_read_bytes(self_p, 8)
    IN [self |-> r.self,
        value |-> [hi |-> U32(r.buf[1] * 256 + r.buf[2], r.buf[3] * 256 + r.buf[4]),
                   lo |-> U32(r.buf[5] * 256 + r.buf[6], r.buf[7] * 256 + r.buf[8])]]

\* switch (number_of_bytes); the operands of | in case 3 in written order.
decoder_read_integer(self_p, number_of_bytes) ==
    CASE number_of_bytes = 1 ->
           LET r == decoder_read_integer_8(self_p)
           IN [self |-> r.self, value |-> U32(0, r.value)]
      [] number_of_bytes = 2 ->
           LET r == decoder_read_integer_16(self_p)
           IN [self |-> r.self, value |-> U32(0, r.value)]
      [] number_of_bytes = 3 ->
           LET r8 == decoder_read_integer_8(self_p)
               r16 == decoder_read_integer_16(r8.self)
           IN [self |-> r16.self,
               value |-> U32Or(Shl16(r8.value), U32(0, r16.value))]
      [] number_of_bytes = 4 -> decoder_read_integer_32(self_p)
      [] OTHER -> [self |-> self_p, value |-> U32(65535, 65535)]

decoder_read_bool(self_p) ==
    LET r == decoder_read_integer_8(self_p)
    IN [self |-> r.self, value |-> r.value # 0]

\* A slip: the default label reading four bytes, as the default label of
\* the encoder writes them.
decoder_read_length_determinant_default_32(self_p) ==
    LET first == decoder_read_integer_8(self_p)
    IN IF BitAnd(first.value, 128) # 0
       THEN CASE BitAnd(first.value, 127) = 1 ->
                   LET r == decoder_read_integer_8(first.self)
                   IN [self |-> r.self, value |-> U32(0, r.value)]
              [] BitAnd(first.value, 127) = 2 ->
                   LET r == decoder_read_integer_16(first.self)
                   IN [self |-> r.self, value |-> U32(0, r.value)]
              [] BitAnd(first.value, 127) = 3 ->
                   LET r8 == decoder_read_integer_8(first.self)
                       r16 == decoder_read_integer_16(r8.self)
                   IN [self |-> r16.self,
                       value |-> U32Or(Shl16(r8.value), U32(0, r16.value))]
              [] OTHER -> decoder_read_integer_32(first.self)
       ELSE [self |-> first.self, value |-> U32(0, first.value)]

\* The operands of | in case 3 are evaluated in the order they are written
\* (read one byte, then two), as section 4.3 of the specification has it.
decoder_read_length_determinant(self_p) ==
    LET first == decoder_read_integer_8(self_p)
    IN IF BitAnd(first.value, 128) # 0
       THEN CASE BitAnd(first.value, 127) = 1 ->
                   LET r == decoder_read_integer_8(first.self)
                   IN [self |-> r.self, value |-> U32(0, r.value)]
              [] BitAnd(first.value, 127) = 2 ->
                   LET r == decoder_read_integer_16(first.self)
                   IN [self |-> r.self, value |-> U32(0, r.value)]
              [] BitAnd(first.value, 127) = 3 ->
                   LET r8 == decoder_read_integer_8(first.self)
                       r16 == decoder_read_integer_16(r8.self)
                   IN [self |-> r16.self,
                       value |-> U32Or(Shl16(r8.value), U32(0, r16.value))]
              [] BitAnd(first.value, 127) = 4 ->
                   decoder_read_integer_32(first.self)
              [] OTHER ->
                   [self |-> first.self, value |-> U32(65535, 65535)]
       ELSE [self |-> first.self, value |-> U32(0, first.value)]

----------------------------------------------------------------------------
(* The length determinant codec: a length is encoded into a buffer with    *)
(* room for it, then decoded from exactly the bytes written.               *)

\* Bound: the lengths tried lie within LengthSpread of the ends of the five
\* ranges of the encoding.
LengthSpread == 1

\* Bound: the capacity of the encoder's buffer; five bytes are the longest
\* length determinant.
MaxCapacity == 6

LoSamples ==
    (0..LengthSpread) \cup ((127 - LengthSpread)..(128 + LengthSpread))
    \cup ((255 - LengthSpread)..(256 + LengthSpread))
    \cup ((65535 - LengthSpread)..65535)

HiSamples ==
    (0..LengthSpread) \cup ((255 - LengthSpread)..(256 + LengthSpread))
    \cup ((65535 - LengthSpread)..65535)

LengthSamples == {U32(hi, lo) : hi \in HiSamples, lo \in LoSamples}

ZeroBuffer(size) == [i \in 1..size |-> 0]

LengthIdle ==
    /\ length = U32(0, 0)
    /\ decoded_length = U32(0, 0)
    /\ length_pc = "idle"
    /\ width = 0

\* Bound: the number of bytes that follow the first byte of the input of
\* decoder_read_length_determinant.
MaxFollowing == 4

\* First bytes: top bit clear; top bit set with the low 7 bits 0, 1..4, 5
\* and 127.
FirstBytes == {0, 1, 127, 128, 129, 130, 131, 132, 133, 255}

FollowingBytes == {0, 1, 128, 255}

LengthInputs ==
    {<<first>> \o following :
        first \in FirstBytes,
        following \in UNION {[1..n -> FollowingBytes] : n \in 0..MaxFollowing}}

\* Either a length to encode and decode again, or an input to decode.
LengthStart ==
    /\ \/ /\ length_pc = "start"
          /\ length \in LengthSamples
          /\ \E size \in 5..MaxCapacity : encoder = encoder_init(ZeroBuffer(size), size)
          /\ decoder = NoContext
       \/ /\ length_pc = "input"
          /\ length = U32(0, 0)
          /\ encoder = NoContext
          /\ \E buf_p \in LengthInputs : decoder = decoder_init(buf_p, Len(buf_p))
    /\ decoded_length = U32(0, 0)
    /\ width = 0

AppendLengthDeterminant ==
    /\ length_pc = "start"
    /\ encoder' = encoder_append_length_determinant(encoder, length)
    /\ length_pc' = "encoded"
    /\ UNCHANGED <<length, decoded_length, width, decoder>>
    /\ UNCHANGED <<sortVars, runtimeVars, codecVars, generateVars>>

\* The bytes the encoder has written so far.
Encoded(self_p) == SubSeq(self_p.buf_p, 1, self_p.pos)

ReadLengthDeterminant ==
    /\ length_pc = "encoded"
    /\ LET r == decoder_read_length_determinant(
                    decoder_init(Encoded(encoder), encoder.pos))
       IN /\ decoder' = r.self
          /\ decoded_length' = r.value
    /\ length_pc' = "decoded"
    /\ UNCHANGED <<length, width, encoder>>
    /\ UNCHANGED <<sortVars, runtimeVars, codecVars, generateVars>>

\* decoder_read_length_determinant on any input.
ReadLengthInput ==
    /\ length_pc = "input"
    /\ \E r \in {decoder_read_length_determinant(decoder)} :
         /\ decoder' = r.self
         /\ decoded_length' = r.value
    /\ length_pc' = "read"
    /\ UNCHANGED <<length, width, encoder>>
    /\ UNCHANGED <<sortVars, runtimeVars, codecVars, generateVars>>

----------------------------------------------------------------------------
(* The generic integer codec: encoder_append_integer writes a value with a *)
(* width, decoder_read_integer reads the bytes written with the same width.*)

\* Bound: the widths 0..MaxWidth are tried, and 255.
MaxWidth == 5

Widths == (0..MaxWidth) \cup {255}

\* The values below 2^(8w) for the widths w of 1..4 are the whole of
\* LengthSamples by their range.
IntegerStart ==
    /\ length_pc = "integer"
    /\ width \in Widths
    /\ length \in LengthSamples
    /\ \E size \in 5..MaxCapacity : encoder = encoder_init(ZeroBuffer(size), size)
    /\ decoder = NoContext
    /\ decoded_length = U32(0, 0)

AppendInteger ==
    /\ length_pc = "integer"
    /\ encoder' = encoder_append_integer(encoder, length, width)
    /\ length_pc' = "appended"
    /\ UNCHANGED <<length, decoded_length, width, decoder>>
    /\ UNCHANGED <<sortVars, runtimeVars, codecVars, generateVars>>

\* decoder_read_integer on the bytes written, with the same width.
ReadInteger ==
    /\ length_pc = "appended"
    /\ \E r \in {decoder_read_integer(decoder_init(Encoded(encoder), encoder.pos),
                                       width)} :
         /\ decoder' = r.self
         /\ decoded_length' = r.value
    /\ length_pc' = "integer_read"
    /\ UNCHANGED <<length, width, encoder>>
    /\ UNCHANGED <<sortVars, runtimeVars, codecVars, generateVars>>

----------------------------------------------------------------------------
(* Calls of the runtime primitives on one encoder and one decoder context, *)
(* in any order and with any size: the appends and reads of a generated    *)
(* encode or decode function, and its aborts.                              *)

\* Bound: the capacity of the output buffer and the length of the input.
MaxSize == 3

\* Bound: the size of one append or read.
MaxRequest == 2

\* The byte values appended and found in the input.
DataBytes == {1, 255}

BytesOfLength(n) == [1..n -> DataBytes]

NoValue == [op |-> "none", value |-> U32(0, 0), flag |-> FALSE]

NoCalls ==
    /\ last_alloc = [size |-> 0, pos |-> 0]
    /\ last_free = [size |-> 0, pos |-> 0]
    /\ read_buf = <<>>
    /\ read_value = NoValue

RuntimeIdle == NoCalls /\ call = "idle"

\* An encode call owns an encoder, a decode call a decoder.
RuntimeStart ==
    /\ \/ /\ call = "encode"
          /\ \E size \in 0..MaxSize : encoder = encoder_init(ZeroBuffer(size), size)
          /\ decoder = NoContext
       \/ /\ call = "decode"
          /\ \E size \in 0..MaxSize : \E buf_p \in BytesOfLength(size) :
               decoder = decoder_init(buf_p, size)
          /\ encoder = NoContext
    /\ NoCalls

EncoderAppendBytes ==
    /\ call = "encode"
    /\ \E size \in 0..MaxRequest : \E buf_p \in BytesOfLength(size) :
         /\ last_alloc' = [size |-> size, pos |-> encoder_alloc(encoder, size).pos]
         /\ encoder' = encoder_append_bytes(encoder, buf_p)
    /\ UNCHANGED <<decoder, last_free, read_buf, read_value, call>>
    /\ UNCHANGED <<sortVars, lengthVars, codecVars, generateVars>>

DecoderReadBytes ==
    /\ call = "decode"
    /\ \E size \in 0..MaxRequest :
         /\ last_free' = [size |-> size, pos |-> decoder_free(decoder, size).pos]
         /\ decoder' = decoder_read_bytes(decoder, size).self
         /\ read_buf' = decoder_read_bytes(decoder, size).buf
    /\ read_value' = NoValue
    /\ UNCHANGED <<encoder, last_alloc, call>>
    /\ UNCHANGED <<sortVars, lengthVars, codecVars, generateVars>>

\* The value a read returned: the integers as a uint32_t.
ValueRead(op, r) ==
    CASE op \in {"integer_8", "integer_16"} ->
           [op |-> op, value |-> U32(0, r.value), flag |-> FALSE]
      [] op = "bool" -> [op |-> op, value |-> U32(0, 0), flag |-> r.value]
      [] OTHER -> [op |-> op, value |-> r.value, flag |-> FALSE]

\* The sizes the read passes to decoder_read_bytes, in the order of the
\* calls.
Requests(op, number_of_bytes, self_p) ==
    CASE op \in {"integer_8", "bool"} -> <<1>>
      [] op = "integer_16" -> <<2>>
      [] op = "integer_32" -> <<4>>
      [] op = "integer" ->
           (CASE number_of_bytes = 1 -> <<1>>
              [] number_of_bytes = 2 -> <<2>>
              [] number_of_bytes = 3 -> <<1, 2>>
              [] number_of_bytes = 4 -> <<4>>
              [] OTHER -> <<>>)
      [] op = "length_determinant" ->
           LET first == decoder_read_integer_8(self_p).value
           IN IF BitAnd(first, 128) = 0 THEN <<1>>
              ELSE CASE BitAnd(first, 127) = 1 -> <<1, 1>>
                     [] BitAnd(first, 127) = 2 -> <<1, 2>>
                     [] BitAnd(first, 127) = 3 -> <<1, 1, 2>>
                     [] BitAnd(first, 127) = 4 -> <<1, 4>>
                     [] OTHER -> <<1>>

\* last_free after the calls of decoder_free with the sizes, one by one.
RECURSIVE LastFree(_, _, _)
LastFree(sizes, self_p, last) ==
    IF sizes = <<>> THEN last
    ELSE LastFree(Tail(sizes), decoder_free(self_p, Head(sizes)).self,
                  [size |-> Head(sizes),
                   pos |-> decoder_free(self_p, Head(sizes)).pos])

\* One read of an integer, a bool or a length by a generated decode function.
DecoderReadValue ==
    /\ call = "decode"
    /\ \E op \in {"integer_8", "integer_16", "integer_32", "integer", "bool",
                   "length_determinant"} :
         \E number_of_bytes \in IF op = "integer" THEN 1..4 ELSE {0} :
           \E r \in {CASE op = "integer_8" -> decoder_read_integer_8(decoder)
                       [] op = "integer_16" -> decoder_read_integer_16(decoder)
                       [] op = "integer_32" -> decoder_read_integer_32(decoder)
                       [] op = "integer" -> decoder_read_integer(decoder, number_of_bytes)
                       [] op = "bool" -> decoder_read_bool(decoder)
                       [] op = "length_determinant" ->
                            decoder_read_length_determinant(decoder)} :
             /\ decoder' = r.self
             /\ read_value' = ValueRead(op, r)
             /\ last_free' = LastFree(Requests(op, number_of_bytes, decoder),
                                      decoder, last_free)
    /\ read_buf' = <<>>
    /\ UNCHANGED <<encoder, last_alloc, call>>
    /\ UNCHANGED <<sortVars, lengthVars, codecVars, generateVars>>

\* encoder_abort(encoder_p, EBADCHOICE) of a generated encode function.
EncoderAbort ==
    /\ call = "encode"
    /\ encoder' = encoder_abort(encoder, EBADCHOICE)
    /\ UNCHANGED <<decoder, runtimeVars, sortVars, lengthVars, codecVars, generateVars>>

\* decoder_abort(decoder_p, ...) of a generated decode function.
DecoderAbort ==
    /\ call = "decode"
    /\ \E error \in {EBADCHOICE, EBADLENGTH} :
         decoder' = decoder_abort(decoder, error)
    /\ UNCHANGED <<encoder, runtimeVars, sortVars, lengthVars, codecVars, generateVars>>

----------------------------------------------------------------------------
(* The generated encode and decode bodies.  format_type_inner returns the  *)
(* C statements that encode from src_p and decode into dst_p; the          *)
(* operators below are those statements, run on a context.                 *)
(*                                                                         *)
(* A compiled type and its constraints checker are one record:             *)
(*   [kind |-> "Integer", bits, signed]    the width and the signedness of *)
(*                                         the name format_type_name gave  *)
(*   [kind |-> "Boolean"], [kind |-> "Null"], [kind |-> "Enumerated"]      *)
(*   [kind |-> "OctetString", minimum, maximum]                            *)
(*   [kind |-> "Sequence", root_members]   members [optional, default,     *)
(*                                         type], default <<>> for None    *)
(*   [kind |-> "Choice", root_members]     members [tag, type], tag the    *)
(*                                         one byte of member.tag          *)
(*   [kind |-> "SequenceOf", minimum, maximum, element_type]               *)
(*   [kind |-> "UserType", type]           a reference to a user type      *)
(* A value (src_p, dst_p) is an integer, a boolean, <<>> for Null,         *)
(* [length, buf], a sequence of [is_present, value] for the members of a   *)
(* Sequence, [choice, value] with choice the position of the alternative,  *)
(* or [length, elements].                                                  *)
(* A decode body returns the context, the value stored into dst_p and      *)
(* returned, TRUE when it has run the C statement "return;".               *)

RECURSIVE Blank(_)
RECURSIVE format_type_inner_encode(_, _, _)
RECURSIVE format_type_inner_decode(_, _)

RECURSIVE Pow2(_)
Pow2(n) == IF n = 0 THEN 1 ELSE 2 * Pow2(n - 1)

\* dst_p before the decoder has stored anything into it.
Blank(type) ==
    CASE type.kind = "Integer" ->
           IF type.bits = 32 THEN U32(0, 0)
           ELSE IF type.bits = 64 THEN [hi |-> U32(0, 0), lo |-> U32(0, 0)]
           ELSE 0
      [] type.kind = "Boolean" -> FALSE
      [] type.kind = "Null" -> <<>>
      [] type.kind = "Enumerated" -> 0
      [] type.kind = "OctetString" -> [length |-> 0, buf |-> <<>>]
      [] type.kind = "Sequence" ->
           [j \in 1..Len(type.root_members) |->
              [is_present |-> FALSE, value |-> Blank(type.root_members[j].type)]]
      [] type.kind = "Choice" -> [choice |-> 0, value |-> <<>>]
      [] type.kind = "SequenceOf" -> [length |-> 0, elements |-> <<>>]
      [] type.kind = "UserType" -> Blank(type.type)

Done(self_p, dst) == [self |-> self_p, returned |-> FALSE, dst |-> dst]

Returned(self_p, dst) == [self |-> self_p, returned |-> TRUE, dst |-> dst]

(* format_integer_inner *)

format_integer_inner_encode(checker, src, self_p) ==
    CASE checker.bits = 8 -> encoder_append_integer_8(self_p, src % 256)
      [] checker.bits = 16 -> encoder_append_integer_16(self_p, src % 65536)
      [] checker.bits = 32 -> encoder_append_integer_32(self_p, src)
      [] checker.bits = 64 -> encoder_append_integer_64(self_p, src)

\* dst_p->value = (the unsigned value read): the conversion to an int8_t or
\* int16_t member, modulo 2^bits as gcc and clang define it.  A 32-bit or
\* 64-bit member holds the bit pattern.
StoredInteger(checker, value) ==
    IF checker.signed /\ checker.bits \in {8, 16} /\ value >= Pow2(checker.bits - 1)
    THEN value - Pow2(checker.bits)
    ELSE value

format_integer_inner_decode(checker, self_p) ==
    LET r == CASE checker.bits = 8 -> decoder_read_integer_8(self_p)
               [] checker.bits = 16 -> decoder_read_integer_16(self_p)
               [] checker.bits = 32 -> decoder_read_integer_32(self_p)
               [] checker.bits = 64 -> decoder_read_integer_64(self_p)
    IN Done(r.self, StoredInteger(checker, r.value))

(* format_boolean_inner *)

format_boolean_inner_encode(src, self_p) == encoder_append_bool(self_p, src)

format_boolean_inner_decode(self_p) ==
    LET r == decoder_read_bool(self_p)
    IN Done(r.self, r.value)

(* format_enumerated_inner *)

format_enumerated_inner_encode(src, self_p) == encoder_append_integer_8(self_p, src)

format_enumerated_inner_decode(self_p) ==
    LET r == decoder_read_integer_8(self_p)
    IN Done(r.self, r.value)

(* format_sequence_inner *)

IsOptional(member) == member.optional \/ member.default # <<>>

\* Position of member j of the sequence in the list optionals, from 0.
OptionalIndex(type, j) ==
    Cardinality({h \in 1..(j - 1) : IsOptional(type.root_members[h])})

present_mask_length(type) ==
    (Cardinality({h \in 1..Len(type.root_members) :
                    IsOptional(type.root_members[h])}) + 7) \div 8

\* byte, bit = divmod(i, 8); mask = 1 << (7 - bit)
mask_byte(i) == i \div 8

\* A slip: the bits counted from the least significant one.
mask_bit_lsb_first(i) == Pow2(i % 8)

mask_bit(i) == Pow2(7 - (i % 8))

\* The bit of member j in the array present_mask (element 1 is [0]).
PresentBit(type, j, present_mask) ==
    LET i == OptionalIndex(type, j)
    IN BitAnd(present_mask[mask_byte(i) + 1], mask_bit(i)) = mask_bit(i)

\* The condition under which the encoder sets the bit of member j and
\* encodes the member.
MemberEncoded(member, src_member) ==
    IF member.optional THEN src_member.is_present
    ELSE IF member.default # <<>> THEN src_member.value # member.default[1]
    ELSE TRUE

\* present_mask[byte] |= mask for the members from j on.
RECURSIVE SetPresentMask(_, _, _, _)
SetPresentMask(type, src, j, present_mask) ==
    IF j > Len(type.root_members) THEN present_mask
    ELSE LET member == type.root_members[j]
             i == OptionalIndex(type, j)
         IN IF IsOptional(member) /\ MemberEncoded(member, src[j])
            THEN SetPresentMask(type, src, j + 1,
                    [present_mask EXCEPT ![mask_byte(i) + 1] =
                        BitOr(present_mask[mask_byte(i) + 1], mask_bit(i))])
            ELSE SetPresentMask(type, src, j + 1, present_mask)

RECURSIVE EncodeMembers(_, _, _, _)
EncodeMembers(type, src, j, self_p) ==
    IF j > Len(type.root_members) THEN self_p
    ELSE LET member == type.root_members[j]
         IN IF MemberEncoded(member, src[j])
            THEN EncodeMembers(type, src, j + 1,
                    format_type_inner_encode(member.type, src[j].value, self_p))
            ELSE EncodeMembers(type, src, j + 1, self_p)

format_sequence_inner_encode(type, src, self_p) ==
    IF present_mask_length(type) > 0
    THEN LET present_mask ==
                 SetPresentMask(type, src, 1, ZeroBuffer(present_mask_length(type)))
         IN EncodeMembers(type, src, 1, encoder_append_bytes(self_p, present_mask))
    ELSE EncodeMembers(type, src, 1, self_p)

\* The members from j on; dst holds the members decoded so far.
RECURSIVE DecodeMembers(_, _, _, _, _)

\* A slip: the payload of a member with a default read whatever its bit.
DecodeMembers_always_read(type, present_mask, j, self_p, dst) ==
    IF j > Len(type.root_members) THEN Done(self_p, dst)
    ELSE LET member == type.root_members[j]
             decode == IF member.optional THEN dst[j].is_present ELSE TRUE
         IN IF decode
            THEN LET r == format_type_inner_decode(member.type, self_p)
                     stored == [dst EXCEPT ![j].value = r.dst]
                 IN IF r.returned THEN Returned(r.self, stored)
                    ELSE DecodeMembers(type, present_mask, j + 1, r.self, stored)
            ELSE DecodeMembers(type, present_mask, j + 1, self_p, dst)

DecodeMembers(type, present_mask, j, self_p, dst) ==
    IF j > Len(type.root_members) THEN Done(self_p, dst)
    ELSE LET member == type.root_members[j]
             decode == IF member.optional THEN dst[j].is_present
                       ELSE IF member.default # <<>>
                       THEN PresentBit(type, j, present_mask)
                       ELSE TRUE
         IN IF decode
            THEN LET r == format_type_inner_decode(member.type, self_p)
                     stored == [dst EXCEPT ![j].value = r.dst]
                 IN IF r.returned THEN Returned(r.self, stored)
                    ELSE DecodeMembers(type, present_mask, j + 1, r.self, stored)
            ELSE IF member.optional
            THEN DecodeMembers(type, present_mask, j + 1, self_p, dst)
            ELSE DecodeMembers(type, present_mask, j + 1, self_p,
                               [dst EXCEPT ![j].value = member.default[1]])

format_sequence_inner_decode(type, self_p) ==
    IF present_mask_length(type) > 0
    THEN LET r == decoder_read_bytes(self_p, present_mask_length(type))
             flags == [j \in 1..Len(type.root_members) |->
                         [is_present |-> IF type.root_members[j].optional
                                         THEN PresentBit(type, j, r.buf)
                                         ELSE FALSE,
                          value |-> Blank(type.root_members[j].type)]]
         IN DecodeMembers(type, r.buf, 1, r.self, flags)
    ELSE DecodeMembers(type, <<>>, 1, self_p, Blank(type))

(* format_octet_string_inner *)

\* The uint32_t value as a size_t; a size beyond 2^31 - 1 is more than any
\* buffer of the model holds, and is kept as 2^31 - 1.
ToSize(value) ==
    IF value.hi >= 32768 THEN 2147483647 ELSE value.hi * 65536 + value.lo

\* value > n for an int n
U32GreaterThan(value, n) ==
    value.hi > n \div 65536 \/ (value.hi = n \div 65536 /\ value.lo > n % 65536)

format_octet_string_inner_encode(checker, src, self_p) ==
    IF checker.minimum = checker.maximum
    THEN encoder_append_bytes(self_p, SubSeq(src.buf, 1, checker.maximum))
    ELSE IF checker.maximum < 128
    THEN encoder_append_bytes(encoder_append_integer_8(self_p, src.length),
                              SubSeq(src.buf, 1, src.length))
    ELSE encoder_append_bytes(
             encoder_append_length_determinant(self_p, src.length),
             SubSeq(src.buf, 1, ToSize(src.length)))

\* A slip: the decoded length compared with >= 128 instead of the maximum.
format_octet_string_inner_decode_unbounded(checker, self_p) ==
    IF checker.minimum = checker.maximum
    THEN LET r == decoder_read_bytes(self_p, checker.maximum)
         IN Done(r.self, [length |-> checker.maximum, buf |-> r.buf])
    ELSE IF checker.maximum < 128
    THEN LET len == decoder_read_integer_8(self_p)
         IN IF len.value >= 128
            THEN Returned(decoder_abort(len.self, EBADLENGTH),
                          [length |-> len.value, buf |-> <<>>])
            ELSE LET r == decoder_read_bytes(len.self, len.value)
                 IN Done(r.self, [length |-> len.value, buf |-> r.buf])
    ELSE LET len == decoder_read_length_determinant(self_p)
         IN IF U32GreaterThan(len.value, checker.maximum)
            THEN Returned(decoder_abort(len.self, EBADLENGTH),
                          [length |-> len.value, buf |-> <<>>])
            ELSE LET r == decoder_read_bytes(len.self, ToSize(len.value))
                 IN Done(r.self, [length |-> len.value, buf |-> r.buf])

format_octet_string_inner_decode(checker, self_p) ==
    IF checker.minimum = checker.maximum
    THEN LET r == decoder_read_bytes(self_p, checker.maximum)
         IN Done(r.self, [length |-> checker.maximum, buf |-> r.buf])
    ELSE IF checker.maximum < 128
    THEN LET len == decoder_read_integer_8(self_p)
         IN IF len.value > checker.maximum
            THEN Returned(decoder_abort(len.self, EBADLENGTH),
                          [length |-> len.value, buf |-> <<>>])
            ELSE LET r == decoder_read_bytes(len.self, len.value)
                 IN Done(r.self, [length |-> len.value, buf |-> r.buf])
    ELSE LET len == decoder_read_length_determinant(self_p)
         IN IF U32GreaterThan(len.value, checker.maximum)
            THEN Returned(decoder_abort(len.self, EBADLENGTH),
                          [length |-> len.value, buf |-> <<>>])
            ELSE LET r == decoder_read_bytes(len.self, ToSize(len.value))
                 IN Done(r.self, [length |-> len.value, buf |-> r.buf])

(* format_user_type_inner: a call of the user type's own functions; the    *)
(* "return;" of the callee ends the callee only.                           *)

format_user_type_inner_encode(type, src, self_p) ==
    format_type_inner_encode(type.type, src, self_p)

format_user_type_inner_decode(type, self_p) ==
    LET r == format_type_inner_decode(type.type, self_p)
    IN Done(r.self, r.dst)

(* format_choice_inner *)

\* The alternatives of the switch whose case label is tag.
CasesOf(type, tag) ==
    {j \in 1..Len(type.root_members) : type.root_members[j].tag = tag}

format_choice_inner_encode(type, src, self_p) ==
    IF src.choice \in 1..Len(type.root_members)
    THEN LET member == type.root_members[src.choice]
         IN format_type_inner_encode(member.type, src.value,
                                     encoder_append_integer_8(self_p, member.tag))
    ELSE encoder_abort(self_p, EBADCHOICE)

\* A slip: the default label without its decoder_abort.
format_choice_inner_decode_no_abort(type, self_p) ==
    LET tag == decoder_read_integer_8(self_p)
    IN IF CasesOf(type, tag.value) # {}
       THEN LET j == CHOOSE j \in CasesOf(type, tag.value) : TRUE
                r == format_type_inner_decode(type.root_members[j].type, tag.self)
            IN [self |-> r.self, returned |-> r.returned,
                dst |-> [choice |-> j, value |-> r.dst]]
       ELSE Done(tag.self, Blank(type))

format_choice_inner_decode(type, self_p) ==
    LET tag == decoder_read_integer_8(self_p)
    IN IF CasesOf(type, tag.value) # {}
       THEN LET j == CHOOSE j \in CasesOf(type, tag.value) : TRUE
                r == format_type_inner_decode(type.root_members[j].type, tag.self)
            IN [self |-> r.self, returned |-> r.returned,
                dst |-> [choice |-> j, value |-> r.dst]]
       ELSE Done(decoder_abort(tag.self, EBADCHOICE), Blank(type))

(* format_sequence_of_inner *)

RECURSIVE EncodeElements(_, _, _, _, _)
EncodeElements(element_type, count, src, i, self_p) ==
    IF i >= count THEN self_p
    ELSE EncodeElements(element_type, count, src, i + 1,
            format_type_inner_encode(element_type, src.elements[i + 1], self_p))

\* Bound: the count of a sequence-of.
MaxCount == 2

\* The elements of dst_p the model keeps once the decoder has failed.
ElementsKept == MaxCount + 2

\* for (i = 0; i < count; i++): elements holds elements[0..i-1].  Once the
\* decoder has failed and an iteration leaves it as it found it, every
\* later iteration does the same and stores the same zero element: of those
\* elements the first ElementsKept are kept.
RECURSIVE DecodeElements(_, _, _, _)
DecodeElements(element_type, count, self_p, elements) ==
    IF Len(elements) >= count THEN Done(self_p, elements)
    ELSE LET r == format_type_inner_decode(element_type, self_p)
         IN IF r.returned THEN Returned(r.self, Append(elements, r.dst))
            ELSE IF r.self.size < 0 /\ r.self = self_p
                    /\ Len(elements) + 1 >= ElementsKept
            THEN Done(r.self, Append(elements, r.dst))
            ELSE DecodeElements(element_type, count, r.self, Append(elements, r.dst))

\* int.bit_length()
RECURSIVE bit_length(_)
bit_length(n) == IF n = 0 THEN 0 ELSE 1 + bit_length(n \div 2)

\* checker.maximum is maximum_high * 2^32 + maximum.
number_of_length_bytes(checker) ==
    ((IF checker.maximum_high > 0 THEN 32 + bit_length(checker.maximum_high)
      ELSE bit_length(checker.maximum)) + 7) \div 8

format_sequence_of_inner_encode(type, src, self_p) ==
    IF type.maximum_high = 0 /\ type.minimum = type.maximum
    THEN EncodeElements(type.element_type, type.maximum, src, 0,
            encoder_append_integer_8(encoder_append_integer_8(self_p, 1),
                                     type.maximum))
    ELSE EncodeElements(type.element_type, ToSize(src.length), src, 0,
            encoder_append_integer(
                encoder_append_integer_8(self_p, number_of_length_bytes(type)),
                src.length, number_of_length_bytes(type)))

\* With a fixed count the length read is a local variable of the function,
\* not a member of dst_p.
format_sequence_of_inner_decode(type, self_p) ==
    IF type.maximum_high = 0 /\ type.minimum = type.maximum
    THEN LET unique_number_of_length_bytes == decoder_read_integer_8(self_p)
             len == decoder_read_integer_8(unique_number_of_length_bytes.self)
         IN IF unique_number_of_length_bytes.value # 1 \/ len.value > type.maximum
            THEN Returned(decoder_abort(len.self, EBADLENGTH), Blank(type))
            ELSE LET r == DecodeElements(type.element_type, type.maximum,
                                         len.self, <<>>)
                 IN [self |-> r.self, returned |-> r.returned,
                     dst |-> [Blank(type) EXCEPT !.elements = r.dst]]
    ELSE LET unique_number_of_length_bytes == decoder_read_integer_8(self_p)
             len == decoder_read_integer(unique_number_of_length_bytes.self,
                                         unique_number_of_length_bytes.value)
         IN IF type.maximum_high = 0 /\ U32GreaterThan(len.value, type.maximum)
            THEN Returned(decoder_abort(len.self, EBADLENGTH),
                          [length |-> len.value, elements |-> <<>>])
            ELSE LET r == DecodeElements(type.element_type, ToSize(len.value),
                                         len.self, <<>>)
                 IN [self |-> r.self, returned |-> r.returned,
                     dst |-> [length |-> len.value, elements |-> r.dst]]

(* format_type_inner *)

format_type_inner_encode(type, src, self_p) ==
    CASE type.kind = "Integer" -> format_integer_inner_encode(type, src, self_p)
      [] type.kind = "Null" -> self_p
      [] type.kind = "Boolean" -> format_boolean_inner_encode(src, self_p)
      [] type.kind = "UserType" -> format_user_type_inner_encode(type, src, self_p)
      [] type.kind = "OctetString" -> format_octet_string_inner_encode(type, src, self_p)
      [] type.kind = "Sequence" -> format_sequence_inner_encode(type, src, self_p)
      [] type.kind = "Choice" -> format_choice_inner_encode(type, src, self_p)
      [] type.kind = "SequenceOf" -> format_sequence_of_inner_encode(type, src, self_p)
      [] type.kind = "Enumerated" -> format_enumerated_inner_encode(src, self_p)

format_type_inner_decode(type, self_p) ==
    CASE type.kind = "Integer" -> format_integer_inner_decode(type, self_p)
      [] type.kind = "Null" -> Done(self_p, <<>>)
      [] type.kind = "Boolean" -> format_boolean_inner_decode(self_p)
      [] type.kind = "UserType" -> format_user_type_inner_decode(type, self_p)
      [] type.kind = "OctetString" -> format_octet_string_inner_decode(type, self_p)
      [] type.kind = "Sequence" -> format_sequence_inner_decode(type, self_p)
      [] type.kind = "Choice" -> format_choice_inner_decode(type, self_p)
      [] type.kind = "SequenceOf" -> format_sequence_of_inner_decode(type, self_p)
      [] type.kind = "Enumerated" -> format_enumerated_inner_decode(self_p)

----------------------------------------------------------------------------
(* One generated codec at work: the encode function on a value, followed   *)
(* by the decode function on the bytes produced; or the decode function on *)
(* any input.                                                              *)

\* Bound: the length of the input of a decode call.
MaxInput == 4

\* Bound: the number of optional or default members of a sequence.
MaxOptionals == 9

\* The byte values of the input: small lengths and counts, the tags of the
\* choice, the first bytes 0x81 and 0x83 of a length determinant.
InputBytes == {0, 1, 2, 3, 129, 131}

Integer(bits, signed) == [kind |-> "Integer", bits |-> bits, signed |-> signed]

Integer8 == Integer(8, FALSE)

Boolean == [kind |-> "Boolean"]

\* A size constraint below 2^31.
SequenceOf(minimum, maximum, element_type) ==
    [kind |-> "SequenceOf", minimum |-> minimum, maximum |-> maximum,
     maximum_high |-> 0, element_type |-> element_type]

\* SIZE (0..4294967296)
WideSequenceOf(element_type) ==
    [kind |-> "SequenceOf", minimum |-> 0, maximum |-> 0,
     maximum_high |-> 1, element_type |-> element_type]

OctetString(minimum, maximum) ==
    [kind |-> "OctetString", minimum |-> minimum, maximum |-> maximum]

Mandatory(type) == [optional |-> FALSE, default |-> <<>>, type |-> type]

Optional(type) == [optional |-> TRUE, default |-> <<>>, type |-> type]

Default(type, value) == [optional |-> FALSE, default |-> <<value>>, type |-> type]

Sequence(root_members) == [kind |-> "Sequence", root_members |-> root_members]

\* The choice of section 8: 0x01 -> integer, 0x02 -> boolean.
ChoiceOfTwo ==
    [kind |-> "Choice",
     root_members |-> <<[tag |-> 1, type |-> Integer8], [tag |-> 2, type |-> Boolean]>>]

\* The choice followed by a member that is read after it.
ChoiceThenInteger == Sequence(<<Mandatory(ChoiceOfTwo), Mandatory(Integer8)>>)

\* A member with the default 5 before a mandatory member.
DefaultThenMandatory == Sequence(<<Default(Integer8, 5), Mandatory(Integer8)>>)

DecodeTypes ==
    {SequenceOf(n, n, Boolean) : n \in 1..MaxCount}
    \cup {DefaultThenMandatory}
    \cup {SequenceOf(0, MaxCount, Boolean)}
    \cup {ChoiceOfTwo, ChoiceThenInteger}
    \cup {OctetString(2, 2), OctetString(0, 2), OctetString(1, 130)}

Inputs == UNION {[1..n -> InputBytes] : n \in 0..MaxInput}

\* The members of a sequence with k optional or default members.
RECURSIVE PatternMembers(_, _)
PatternMembers(pattern, k) ==
    IF k = 0 THEN <<>>
    ELSE PatternMembers(pattern, k - 1) \o
         CASE pattern = "optional" -> <<Optional(Integer8)>>
           [] pattern = "default" -> <<Default(Integer8, 5)>>
           [] pattern = "mixed" ->
                (IF k % 3 = 0 THEN <<Mandatory(Integer8)>> ELSE <<>>)
                \o (IF k % 2 = 1 THEN <<Optional(Integer8)>>
                    ELSE <<Default(Integer8, 5)>>)

SequenceTypes ==
    {Sequence(PatternMembers(pattern, k)) :
        pattern \in {"optional", "default", "mixed"}, k \in 0..MaxOptionals}

\* The values of a sequence of one-byte integers: an optional member is
\* present with value 7 or absent, a default member has 7 or its default,
\* a mandatory member has 9.
SequenceValues(type) ==
    {[j \in 1..Len(type.root_members) |->
        LET member == type.root_members[j]
        IN IF member.optional
           THEN [is_present |-> set[j], value |-> IF set[j] THEN 7 ELSE 0]
           ELSE IF member.default # <<>>
           THEN [is_present |-> FALSE,
                 value |-> IF set[j] THEN 7 ELSE member.default[1]]
           ELSE [is_present |-> FALSE, value |-> 9]] :
     set \in [1..Len(type.root_members) -> BOOLEAN]}

\* The maxima of the size constraint of a bounded sequence-of: the least and
\* the greatest of each number of length bytes.
SizeMaxima == {1, MaxCount, 255, 256, 65535, 65536, 16777215, 16777216}

BoundedSequenceOfTypes ==
    {SequenceOf(0, maximum, Boolean) : maximum \in SizeMaxima}
    \cup {WideSequenceOf(Boolean)}

Min(a, b) == IF a < b THEN a ELSE b

\* uint32_t values: zero, a value with four different bytes, all ones.
WordValues == {U32(0, 0), U32(258, 772), U32(65535, 65535)}

\* The values of a type within its constraints; of a bounded sequence-of
\* those with no more than MaxCount elements.
RECURSIVE Values(_)
Values(type) ==
    CASE type.kind = "Boolean" -> BOOLEAN
      [] type.kind = "Integer" ->
           IF type.bits \in {8, 16}
           THEN IF type.signed
                THEN {-Pow2(type.bits - 1), -1, 0, Pow2(type.bits - 1) - 1}
                ELSE {0, 1, Pow2(type.bits - 1), Pow2(type.bits) - 1}
           ELSE IF type.bits = 32 THEN WordValues
           ELSE {[hi |-> hi, lo |-> lo] : hi \in WordValues, lo \in WordValues}
      [] type.kind = "Enumerated" -> {0, 1, 2}
      [] type.kind = "Null" -> {<<>>}
      [] type.kind = "UserType" -> Values(type.type)
      [] type.kind = "OctetString" ->
           IF type.minimum = type.maximum
           THEN {[length |-> type.maximum, buf |-> buf] :
                   buf \in BytesOfLength(type.maximum)}
           ELSE UNION {{[length |-> IF type.maximum < 128 THEN n ELSE U32(0, n),
                         buf |-> buf] : buf \in BytesOfLength(n)} :
                       n \in type.minimum..Min(type.maximum, MaxCount)}
      [] type.kind = "Sequence" -> SequenceValues(type)
      [] type.kind = "SequenceOf" ->
           IF type.maximum_high = 0 /\ type.minimum = type.maximum
           THEN {[length |-> 0, elements |-> elements] :
                   elements \in [1..type.maximum -> Values(type.element_type)]}
           ELSE UNION {{[length |-> U32(0, count), elements |-> elements] :
                          elements \in [1..count -> Values(type.element_type)]} :
                       count \in type.minimum..
                                 (IF type.maximum_high > 0 THEN MaxCount
                                  ELSE Min(type.maximum, MaxCount))}

UserReference(type) == [kind |-> "UserType", type |-> type]

\* One type at least of every kind format_type_inner knows, REAL left out.
KindTypes ==
    {Integer(bits, signed) : bits \in {8, 16, 32, 64}, signed \in BOOLEAN}
    \cup {Boolean, [kind |-> "Enumerated"], [kind |-> "Null"]}
    \cup {OctetString(2, 2), OctetString(0, 2), OctetString(1, 130)}
    \cup {ChoiceOfTwo}
    \cup {SequenceOf(n, n, Boolean) : n \in 1..MaxCount}
    \cup {SequenceOf(0, MaxCount, UserReference(Integer(16, TRUE))),
          Sequence(<<Mandatory(UserReference(Integer8)), Optional(Integer8)>>)}

\* The values of a type, those of a choice one set for each alternative.
ValueSets(type) ==
    IF type.kind = "Choice"
    THEN [j \in 1..Len(type.root_members) |->
            {[choice |-> j, value |-> value] :
               value \in Values(type.root_members[j].type)}]
    ELSE <<Values(type)>>

EncodeTypes == SequenceTypes \cup BoundedSequenceOfTypes \cup KindTypes

\* Room for every sample value.
EncodeCapacity == 2 * MaxOptionals + 4

CodecIdle ==
    /\ compiled_type = [kind |-> "Null"]
    /\ src_p = <<>>
    /\ dst_p = <<>>
    /\ returned = FALSE
    /\ codec_pc = "idle"

CodecStart ==
    /\ \/ /\ codec_pc = "encode"
          /\ compiled_type \in EncodeTypes
          /\ \E i \in DOMAIN ValueSets(compiled_type) :
               src_p \in ValueSets(compiled_type)[i]
          /\ encoder = encoder_init(ZeroBuffer(EncodeCapacity), EncodeCapacity)
          /\ decoder = NoContext
       \/ /\ codec_pc = "decode"
          /\ compiled_type \in DecodeTypes
          /\ src_p = <<>>
          /\ encoder = NoContext
          /\ \E buf_p \in Inputs : decoder = decoder_init(buf_p, Len(buf_p))
    /\ dst_p = Blank(compiled_type)
    /\ returned = FALSE

\* The body of the encode_inner function of the type.
\* The chain of isinstance tests has no branch for a user type: the body is
\* empty.
generate_definition_inner_encode(type, value, encoder_p) ==
    IF type.kind = "UserType" THEN encoder_p
    ELSE format_type_inner_encode(type, value, encoder_p)

\* The body of the decode_inner function of the type.
generate_definition_inner_decode(type, decoder_p) ==
    IF type.kind = "UserType" THEN Done(decoder_p, Blank(type))
    ELSE format_type_inner_decode(type, decoder_p)

EncodeType ==
    /\ codec_pc = "encode"
    /\ encoder' = generate_definition_inner_encode(compiled_type, src_p, encoder)
    /\ codec_pc' = "encoded"
    /\ UNCHANGED <<compiled_type, src_p, dst_p, returned, decoder>>
    /\ UNCHANGED <<sortVars, lengthVars, runtimeVars, generateVars>>

\* The decode function on the bytes the encode function returned.
DecodeEncoded ==
    /\ codec_pc = "encoded"
    /\ encoder_get_result(encoder) >= 0
    /\ \E r \in {generate_definition_inner_decode(compiled_type,
                    decoder_init(Encoded(encoder), encoder_get_result(encoder)))} :
         /\ decoder' = r.self
         /\ dst_p' = r.dst
         /\ returned' = r.returned
    /\ codec_pc' = "round_trip"
    /\ UNCHANGED <<compiled_type, src_p, encoder>>
    /\ UNCHANGED <<sortVars, lengthVars, runtimeVars, generateVars>>

\* The decode function on any input.
DecodeType ==
    /\ codec_pc = "decode"
    /\ \E r \in {generate_definition_inner_decode(compiled_type, decoder)} :
         /\ decoder' = r.self
         /\ dst_p' = r.dst
         /\ returned' = r.returned
    /\ codec_pc' = "decoded"
    /\ UNCHANGED <<compiled_type, src_p, encoder>>
    /\ UNCHANGED <<sortVars, lengthVars, runtimeVars, generateVars>>

----------------------------------------------------------------------------
(* generate_helpers: the runtime primitives that go into the output.  The  *)
(* definitions text is kept as the set of the primitive names that occur   *)
(* in it followed by "(", which is all that "pattern in definitions" asks  *)
(* of it.                                                                  *)

\* Bound: the number of types of the schema.
MaxSchema == 3

\* The calls in the statements format_type_inner returns for a type.
RECURSIVE CallSites(_)
CallSites(type) ==
    CASE type.kind = "Integer" ->
           IF type.bits = 8
           THEN {"encoder_append_integer_8", "decoder_read_integer_8"}
           ELSE IF type.bits = 16
           THEN {"encoder_append_integer_16", "decoder_read_integer_16"}
           ELSE {"encoder_append_integer_32", "decoder_read_integer_32"}
      [] type.kind = "Null" -> {}
      [] type.kind = "Boolean" -> {"encoder_append_bool", "decoder_read_bool"}
      [] type.kind = "UserType" -> {}
      [] type.kind = "Enumerated" ->
           {"encoder_append_integer_8", "decoder_read_integer_8"}
      [] type.kind = "OctetString" ->
           IF type.minimum = type.maximum
           THEN {"encoder_append_bytes", "decoder_read_bytes"}
           ELSE IF type.maximum < 128
           THEN {"encoder_append_integer_8", "encoder_append_bytes",
                 "decoder_read_integer_8", "decoder_abort", "decoder_read_bytes"}
           ELSE {"encoder_append_length_determinant", "encoder_append_bytes",
                 "decoder_read_length_determinant", "decoder_abort",
                 "decoder_read_bytes"}
      [] type.kind = "Sequence" ->
           (IF present_mask_length(type) > 0
            THEN {"decoder_read_bytes", "encoder_append_bytes"} ELSE {})
           \cup UNION {CallSites(type.root_members[j].type) :
                          j \in 1..Len(type.root_members)}
      [] type.kind = "Choice" ->
           {"encoder_append_integer_8", "encoder_abort",
            "decoder_read_integer_8", "decoder_abort"}
           \cup UNION {CallSites(type.root_members[j].type) :
                          j \in 1..Len(type.root_members)}
      [] type.kind = "SequenceOf" ->
           (IF type.minimum = type.maximum
            THEN {"encoder_append_integer_8", "decoder_read_integer_8",
                  "decoder_abort"}
            ELSE {"encoder_append_integer_8", "encoder_append_integer",
                  "decoder_read_integer_8", "decoder_read_integer",
                  "decoder_abort"})
           \cup CallSites(type.element_type)

\* The calls of the public encode and decode functions of every type.
DEFINITION_FMT ==
    {"encoder_init", "encoder_get_result", "decoder_init", "decoder_get_result"}

\* The list functions of generate_helpers: the name searched for and the
\* C function the definition defines.
functions ==
    << [pattern |-> "encoder_init", definition |-> "encoder_init"],
       [pattern |-> "encoder_get_result", definition |-> "encoder_get_result"],
       [pattern |-> "encoder_abort", definition |-> "encoder_abort"],
       [pattern |-> "encoder_append_bytes", definition |-> "encoder_alloc"],
       [pattern |-> "encoder_append_bytes", definition |-> "encoder_append_bytes"],
       [pattern |-> "encoder_append_integer_8", definition |-> "encoder_append_integer_8"],
       [pattern |-> "encoder_append_integer_16", definition |-> "encoder_append_integer_16"],
       [pattern |-> "encoder_append_integer_32", definition |-> "encoder_append_integer_32"],
       [pattern |-> "encoder_append_integer_64", definition |-> "encoder_append_integer_64"],
       [pattern |-> "encoder_append_integer", definition |-> "encoder_append_integer"],
       [pattern |-> "encoder_append_float", definition |-> "encoder_append_float"],
       [pattern |-> "encoder_append_double", definition |-> "encoder_append_double"],
       [pattern |-> "encoder_append_bool", definition |-> "encoder_append_bool"],
       [pattern |-> "encoder_append_length_determinant",
        definition |-> "encoder_append_length_determinant"],
       [pattern |-> "decoder_init", definition |-> "decoder_init"],
       [pattern |-> "decoder_get_result", definition |-> "decoder_get_result"],
       [pattern |-> "decoder_abort", definition |-> "decoder_abort"],
       [pattern |-> "decoder_read_bytes", definition |-> "decoder_free"],
       [pattern |-> "decoder_read_bytes", definition |-> "decoder_read_bytes"],
       [pattern |-> "decoder_read_integer_8", definition |-> "decoder_read_integer_8"],
       [pattern |-> "decoder_read_integer_16", definition |-> "decoder_read_integer_16"],
       [pattern |-> "decoder_read_integer_32", definition |-> "decoder_read_integer_32"],
       [pattern |-> "decoder_read_integer_64", definition |-> "decoder_read_integer_64"],
       [pattern |-> "decoder_read_integer", definition |-> "decoder_read_integer"],
       [pattern |-> "decoder_read_float", definition |-> "decoder_read_float"],
       [pattern |-> "decoder_read_double", definition |-> "decoder_read_double"],
       [pattern |-> "decoder_read_bool", definition |-> "decoder_read_bool"],
       [pattern |-> "decoder_read_length_determinant",
        definition |-> "decoder_read_length_determinant"] >>

\* The primitives the C text of a definition calls.
Callees(definition) ==
    CASE definition = "encoder_alloc" -> {"encoder_abort"}
      [] definition = "encoder_append_bytes" -> {"encoder_alloc"}
      [] definition \in {"encoder_append_integer_8", "encoder_append_integer_16",
                         "encoder_append_integer_32", "encoder_append_integer_64"} ->
           {"encoder_append_bytes"}
      [] definition = "encoder_append_integer" ->
           {"encoder_append_integer_8", "encoder_append_integer_16",
            "encoder_append_integer_32"}
      [] definition = "encoder_append_float" -> {"encoder_append_integer_32"}
      [] definition = "encoder_append_double" -> {"encoder_append_integer_64"}
      [] definition = "encoder_append_bool" -> {"encoder_append_integer_8"}
      [] definition = "encoder_append_length_determinant" ->
           {"encoder_append_integer_8", "encoder_append_integer_16",
            "encoder_append_integer_32"}
      [] definition = "decoder_free" -> {"decoder_abort"}
      [] definition = "decoder_read_bytes" -> {"decoder_free"}
      [] definition \in {"decoder_read_integer_8", "decoder_read_integer_16",
                         "decoder_read_integer_32", "decoder_read_integer_64"} ->
           {"decoder_read_bytes"}
      [] definition = "decoder_read_integer" ->
           {"decoder_read_integer_8", "decoder_read_integer_16",
            "decoder_read_integer_32"}
      [] definition = "decoder_read_float" -> {"decoder_read_integer_32"}
      [] definition = "decoder_read_double" -> {"decoder_read_integer_64"}
      [] definition = "decoder_read_bool" -> {"decoder_read_integer_8"}
      [] definition = "decoder_read_length_determinant" ->
           {"decoder_read_integer_8", "decoder_read_integer_16",
            "decoder_read_integer_32"}
      [] OTHER -> {}

\* for pattern, definition in functions: if pattern in definitions: ...
generate_helpers(text) ==
    LET selected == SelectSeq(functions, LAMBDA f : f.pattern \in text)
    IN [i \in 1..Len(selected) |-> selected[i].definition]

SchemaTypes ==
    {Boolean, Integer8, Integer(16, FALSE),
     Integer(32, FALSE), [kind |-> "Null"], [kind |-> "Enumerated"],
     OctetString(2, 2), OctetString(0, 2), OctetString(1, 130),
     Sequence(<<Mandatory(Boolean)>>), Sequence(<<Optional(Integer8)>>),
     ChoiceOfTwo, SequenceOf(2, 2, Boolean), SequenceOf(0, 2, Integer8)}

GenerateIdle ==
    /\ compiled = {}
    /\ definitions = {}
    /\ helpers = <<>>
    /\ generate_pc = "idle"

GenerateStart ==
    /\ compiled \in {schema \in SUBSET SchemaTypes :
                        Cardinality(schema) \in 1..MaxSchema}
    /\ definitions = {}
    /\ helpers = <<>>
    /\ generate_pc = "types"

\* The loops over the modules and the user types, and the join of the
\* inner definitions and the definitions.
GenerateDefinitions ==
    /\ generate_pc = "types"
    /\ definitions' = DEFINITION_FMT \cup UNION {CallSites(type) : type \in compiled}
    /\ generate_pc' = "helpers"
    /\ UNCHANGED <<compiled, helpers>>
    /\ UNCHANGED <<sortVars, ctxVars, lengthVars, runtimeVars, codecVars>>

GenerateHelpers ==
    /\ generate_pc = "helpers"
    /\ helpers' = generate_helpers(definitions)
    /\ generate_pc' = "done"
    /\ UNCHANGED <<compiled, definitions>>
    /\ UNCHANGED <<sortVars, ctxVars, lengthVars, runtimeVars, codecVars>>

----------------------------------------------------------------------------
(* The dependency orderer.                                                 *)

\* Bound: the number of user types of one run.
MaxTypes == 3

TypeNames == {1, 2}

ModuleNames == {1, 2}

\* A type identity is the tuple (type_name, module_name).
Identities == TypeNames \X ModuleNames

\* sorted(compiled.modules.items()), then sorted(module.items()): by module
\* name, then by type name.
BaseBefore(a, b) == a[2] < b[2] \/ (a[2] = b[2] /\ a[1] < b[1])

RECURSIVE BaseOrder(_)
BaseOrder(S) ==
    IF S = {} THEN <<>>
    ELSE LET first == CHOOSE a \in S : \A b \in S \ {a} : BaseBefore(a, b)
         IN <<first>> \o BaseOrder(S \ {first})

\* UserType(type_name, module_name, ..., used_user_types); the text fields
\* play no part in the ordering.
UserType(id, used) ==
    [type_name |-> id[1], module_name |-> id[2], used_user_types |-> used]

user_type_name_tuple(user_type) == <<user_type.type_name, user_type.module_name>>

\* The inner for loop: the largest 1-based position of a placed unit that
\* uses the new unit, 0 when there is none.
\* A slip: the inner loop stopping at the first placed unit that uses the
\* new unit.
insert_index_first(placed, user_type) ==
    LET users == {i \in 1..Len(placed) :
                    <<user_type.type_name, user_type.module_name>>
                        \in placed[i].used_user_types}
    IN IF users = {} THEN 0 ELSE CHOOSE i \in users : \A h \in users : i <= h

insert_index(placed, user_type) ==
    Max({0} \cup {i \in 1..Len(placed) :
                    user_type_name_tuple(user_type) \in placed[i].used_user_types})

SortStart ==
    /\ \E S \in SUBSET Identities :
         /\ Cardinality(S) <= MaxTypes
         /\ \E used \in [S -> SUBSET S] :
              user_types = [i \in 1..Cardinality(S) |->
                              UserType(BaseOrder(S)[i], used[BaseOrder(S)[i]])]
    /\ reversed_sorted_user_types = <<>>
    /\ next_user_type = 1
    /\ sort_pc = "loop"
    /\ sorted_user_types = <<>>

\* One iteration of "for user_type in user_types".
SortInsert ==
    /\ sort_pc = "loop"
    /\ next_user_type <= Len(user_types)
    /\ LET user_type == user_types[next_user_type]
       IN reversed_sorted_user_types' =
            ListInsert(reversed_sorted_user_types,
                       insert_index(reversed_sorted_user_types, user_type),
                       user_type)
    /\ next_user_type' = next_user_type + 1
    /\ UNCHANGED <<user_types, sort_pc, sorted_user_types>>
    /\ UNCHANGED <<ctxVars, lengthVars, runtimeVars, codecVars, generateVars>>

\* return reversed(reversed_sorted_user_types)
SortReturn ==
    /\ sort_pc = "loop"
    /\ next_user_type > Len(user_types)
    /\ sorted_user_types' = Reverse(reversed_sorted_user_types)
    /\ sort_pc' = "returned"
    /\ UNCHANGED <<user_types, reversed_sorted_user_types, next_user_type>>
    /\ UNCHANGED <<ctxVars, lengthVars, runtimeVars, codecVars, generateVars>>

NextSort == SortInsert \/ SortReturn

SortIdle ==
    /\ user_types = <<>>
    /\ reversed_sorted_user_types = <<>>
    /\ next_user_type = 1
    /\ sort_pc = "idle"
    /\ sorted_user_types = <<>>

----------------------------------------------------------------------------
(* generate: the walk over the compiled types that makes the user types    *)
(* handed to the dependency orderer.  Of a compiled type the walk needs    *)
(* its identity, whether its layout holds a REAL that is neither binary32  *)
(* nor binary64 (type_.fmt is None), and the identities of the user types  *)
(* its layout names, which the walk collects in self.used_user_types.      *)

CompiledType(id, fmt_is_none, references) ==
    [type_name |-> id[1], module_name |-> id[2], fmt_is_none |-> fmt_is_none,
     references |-> references]

\* try: ... format_real raises Error ... except Error: return []
generate_type_declaration(a_type) ==
    IF a_type.fmt_is_none THEN <<>> ELSE <<"type_declaration">>

\* The two for loops of generate over the sorted modules and types:
\* "continue" on an empty type declaration, a UserType otherwise.
RECURSIVE WalkTypes(_, _)
WalkTypes(types, order) ==
    IF order = <<>> THEN <<>>
    ELSE LET a_type ==
                 CHOOSE t \in types : <<t.type_name, t.module_name>> = Head(order)
         IN (IF generate_type_declaration(a_type) = <<>> THEN <<>>
             ELSE <<UserType(Head(order), a_type.references)>>)
            \o WalkTypes(types, Tail(order))

\* The compiled modules: up to MaxTypes types, each naming any of them.
GenerateWalkStart ==
    /\ \E S \in SUBSET Identities :
         /\ Cardinality(S) \in 1..MaxTypes
         /\ \E references \in [S -> SUBSET S], fmt_is_none \in [S -> BOOLEAN] :
              compiled = {CompiledType(id, fmt_is_none[id], references[id]) : id \in S}
    /\ definitions = {}
    /\ helpers = <<>>
    /\ generate_pc = "walk"

\* generate up to the call of sort_user_types_by_used_user_types.
GenerateUserTypes ==
    /\ generate_pc = "walk"
    /\ user_types' =
         WalkTypes(compiled,
                   BaseOrder({<<t.type_name, t.module_name>> : t \in compiled}))
    /\ sort_pc' = "loop"
    /\ generate_pc' = "sort"
    /\ UNCHANGED <<reversed_sorted_user_types, next_user_type, sorted_user_types>>
    /\ UNCHANGED <<compiled, definitions, helpers>>
    /\ UNCHANGED <<ctxVars, lengthVars, runtimeVars, codecVars>>

----------------------------------------------------------------------------
(* The specifications.                                                     *)

InitSort == SortStart /\ CtxIdle /\ LengthIdle /\ RuntimeIdle /\ CodecIdle /\ GenerateIdle

SpecSort == InitSort /\ [][NextSort]_vars

NextLength == AppendLengthDeterminant \/ ReadLengthDeterminant \/ ReadLengthInput

InitLength == LengthStart /\ SortIdle /\ RuntimeIdle /\ CodecIdle /\ GenerateIdle

SpecLength == InitLength /\ [][NextLength]_vars

NextInteger == AppendInteger \/ ReadInteger

InitInteger == IntegerStart /\ SortIdle /\ RuntimeIdle /\ CodecIdle /\ GenerateIdle

SpecInteger == InitInteger /\ [][NextInteger]_vars

\* The walk of generate, then the dependency orderer on its user types.
NextGenerate == GenerateUserTypes \/ SortInsert \/ SortReturn

InitGenerate ==
    GenerateWalkStart /\ SortIdle /\ CtxIdle /\ LengthIdle /\ RuntimeIdle /\ CodecIdle

SpecGenerate == InitGenerate /\ [][NextGenerate]_vars

NextRuntime ==
    \/ EncoderAppendBytes
    \/ DecoderReadBytes
    \/ DecoderReadValue
    \/ EncoderAbort
    \/ DecoderAbort

InitRuntime == RuntimeStart /\ SortIdle /\ LengthIdle /\ CodecIdle /\ GenerateIdle

SpecRuntime == InitRuntime /\ [][NextRuntime]_vars

NextCodec == EncodeType \/ DecodeEncoded \/ DecodeType

InitCodec == CodecStart /\ SortIdle /\ LengthIdle /\ RuntimeIdle /\ GenerateIdle

SpecCodec == InitCodec /\ [][NextCodec]_vars

NextHelpers == GenerateDefinitions \/ GenerateHelpers

InitHelpers ==
    GenerateStart /\ SortIdle /\ CtxIdle /\ LengthIdle /\ RuntimeIdle /\ CodecIdle

SpecHelpers == InitHelpers /\ [][NextHelpers]_vars

----------------------------------------------------------------------------
(* Reference edges of the input.                                           *)

InputIds == {user_type_name_tuple(user_types[i]) : i \in 1..Len(user_types)}

Uses(a) ==
    LET i == CHOOSE i \in 1..Len(user_types) : user_type_name_tuple(user_types[i]) = a
    IN user_types[i].used_user_types

RECURSIVE ReachableIn(_, _)
ReachableIn(from, steps) ==
    IF steps = 0 THEN from
    ELSE LET next == from \cup UNION {Uses(a) : a \in from}
         IN ReachableIn(next, steps - 1)

\* The reference edges contain a cycle (a self reference included).
HasCycle ==
    \E a \in InputIds : a \in ReachableIn(Uses(a), Cardinality(InputIds))

PositionOf(a) ==
    CHOOSE i \in 1..Len(sorted_user_types) :
        user_type_name_tuple(sorted_user_types[i]) = a

\* Every unit of the returned order comes strictly after every unit it uses.
DependenciesFirst ==
    \A i \in 1..Len(sorted_user_types) :
        \A a \in sorted_user_types[i].used_user_types : PositionOf(a) < i

(* C1: for every acyclic input in base order the returned order places     *)
(* every unit strictly after every unit named in its used_user_types.      *)
C1_TopologicalOrder ==
    (sort_pc = "returned" /\ ~HasCycle) => DependenciesFirst

(* C2: when the reference edges contain a cycle, the sort does not return  *)
(* an order: it detects the cycle and fails.                               *)
C2_CycleRejected ==
    HasCycle => sort_pc # "returned"

----------------------------------------------------------------------------
(* Claims about the length determinant codec (SpecLength).                 *)

\* The table of section 4.3, from the two halves of the length.
LengthDeterminantTable(len) ==
    IF len.hi = 0 /\ len.lo <= 127 THEN <<len.lo>>
    ELSE IF len.hi = 0 /\ len.lo <= 255 THEN <<129, len.lo>>
    ELSE IF len.hi = 0 THEN <<130, len.lo \div 256, len.lo % 256>>
    ELSE IF len.hi <= 255 THEN <<131, len.hi, len.lo \div 256, len.lo % 256>>
    ELSE <<132, len.hi \div 256, len.hi % 256, len.lo \div 256, len.lo % 256>>

\* The boundary table of section 8.
BoundaryTable ==
    /\ length = U32(0, 127) => Encoded(encoder) = <<127>>
    /\ length = U32(0, 128) => Encoded(encoder) = <<129, 128>>
    /\ length = U32(0, 255) => Encoded(encoder) = <<129, 255>>
    /\ length = U32(0, 256) => Encoded(encoder) = <<130, 1, 0>>
    /\ length = U32(0, 65535) => Encoded(encoder) = <<130, 255, 255>>
    /\ length = U32(1, 0) => Encoded(encoder) = <<131, 1, 0, 0>>
    /\ length = U32(255, 65535) => Encoded(encoder) = <<131, 255, 255, 255>>
    /\ length = U32(256, 0) => Encoded(encoder) = <<132, 1, 0, 0, 0>>

(* C3: with enough capacity encoder_append_length_determinant appends the  *)
(* bytes of the table of section 4.3 for the length, and the boundary      *)
(* values give the byte strings of the boundary table.                     *)
C3_LengthDeterminantBytes ==
    length_pc = "encoded" =>
        /\ Encoded(encoder) = LengthDeterminantTable(length)
        /\ encoder.size >= 0
        /\ BoundaryTable

\* The three-byte form has been written.
C3_Witness ==
    /\ length_pc = "encoded"
    /\ length = U32(1, 0)
    /\ Encoded(encoder) = <<131, 1, 0, 0>>

(* C4: decoding exactly the bytes the encoder wrote for a length returns   *)
(* the length, advances the decoder by the number of bytes written and     *)
(* latches no error.                                                       *)
C4_LengthRoundTrip ==
    length_pc = "decoded" =>
        /\ decoded_length = length
        /\ decoder.pos = encoder.pos
        /\ decoder.size = encoder.pos
        /\ decoder.copied = encoder.pos

\* The largest length has made the round trip through the five-byte form.
C4_Witness ==
    /\ length_pc = "decoded"
    /\ length = U32(65535, 65535)
    /\ decoder.pos = 5

----------------------------------------------------------------------------
(* Claims about generate_helpers (SpecHelpers).                            *)

Emitted == Range(helpers)

(* C7: generate_helpers emits the primitives referenced in the definitions *)
(* text and, transitively, every primitive an emitted primitive calls: no  *)
(* emitted primitive calls a primitive that is not emitted.                *)
C7_HelpersClosed ==
    generate_pc = "done" =>
        /\ \A f \in Range(functions) : f.pattern \in definitions => f.definition \in Emitted
        /\ \A definition \in Emitted : Callees(definition) \subseteq Emitted

----------------------------------------------------------------------------
(* Claims about the generated codecs (SpecCodec).                          *)

\* The input of the decode call.
Input == decoder.buf_p

IsFixedSequenceOf(type) ==
    type.kind = "SequenceOf" /\ type.maximum_high = 0 /\ type.minimum = type.maximum

(* C6: the decoder of a sequence-of with fixed count aborts with           *)
(* EBADLENGTH and decodes no element unless the two bytes it reads first   *)
(* are 1 and the declared maximum (a second byte below the maximum         *)
(* included); with exactly those two bytes it decodes maximum elements.    *)
C6_FixedCountVerified ==
    (codec_pc = "decoded" /\ IsFixedSequenceOf(compiled_type) /\ Len(Input) >= 2) =>
        IF Input[1] = 1 /\ Input[2] = compiled_type.maximum
        THEN Len(dst_p.elements) = compiled_type.maximum
        ELSE /\ decoder_get_result(decoder) = -EBADLENGTH
             /\ dst_p.elements = <<>>

\* The number of members that are optional or have a default.
NumberOfOptionals(type) ==
    Cardinality({j \in 1..Len(type.root_members) : IsOptional(type.root_members[j])})

\* The i-th optional or default member, i from 0, in declaration order.
NthOptional(type, i) ==
    CHOOSE j \in 1..Len(type.root_members) :
        /\ IsOptional(type.root_members[j])
        /\ Cardinality({h \in 1..(j - 1) : IsOptional(type.root_members[h])}) = i

\* ceil(k / 8)
CeilDiv8(k) == IF k % 8 = 0 THEN k \div 8 ELSE k \div 8 + 1

\* Bit number bit (0 the least significant) of a byte.
BitOf(byte, bit) == (byte \div Pow2(bit)) % 2

\* The member is present, or differs from its default.
MemberIsSet(type, value, j) ==
    \/ type.root_members[j].optional /\ value[j].is_present
    \/ /\ type.root_members[j].default # <<>>
       /\ value[j].value # type.root_members[j].default[1]

NumberEncoded(type, value) ==
    Cardinality({j \in 1..Len(type.root_members) :
                    ~IsOptional(type.root_members[j]) \/ MemberIsSet(type, value, j)})

(* C8: the encoder of a sequence with k optional or default members writes *)
(* ceil(k/8) leading bitmask bytes; member i (from 0, in declaration order)*)
(* owns bit 7 - i mod 8 of byte i div 8, which is 1 exactly when the       *)
(* member is present or differs from its default; the unused bits are 0;   *)
(* two optional one-byte integers, absent and 7, give 0x40 0x07.           *)
C8_PresenceBitmask ==
    (codec_pc = "encoded" /\ compiled_type.kind = "Sequence") =>
        LET k == NumberOfOptionals(compiled_type)
            out == Encoded(encoder)
        IN /\ encoder_get_result(encoder) = CeilDiv8(k) + NumberEncoded(compiled_type, src_p)
           /\ \A i \in 0..(8 * CeilDiv8(k) - 1) :
                BitOf(out[(i \div 8) + 1], 7 - (i % 8)) = 1
                <=> (i < k /\ MemberIsSet(compiled_type, src_p, NthOptional(compiled_type, i)))
           /\ (/\ compiled_type = Sequence(<<Optional(Integer8), Optional(Integer8)>>)
               /\ ~src_p[1].is_present
               /\ src_p[2] = [is_present |-> TRUE, value |-> 7])
              => out = <<64, 7>>

\* Nine optional members, only the last one present: the second bitmask
\* byte holds its bit.
C8_Witness ==
    /\ codec_pc = "encoded"
    /\ compiled_type = Sequence(PatternMembers("optional", 9))
    /\ Encoded(encoder) = <<0, 128, 7>>

\* The choice the decode body has stored, and the bytes of the input that
\* precede and follow the choice.
IsChoiceSample == compiled_type \in {ChoiceOfTwo, ChoiceThenInteger}

DecodedChoice ==
    IF compiled_type = ChoiceOfTwo THEN dst_p ELSE dst_p[1].value

(* C9: the decoder of a choice reads one tag byte; on a tag of no          *)
(* alternative it aborts with EBADCHOICE and neither the choice nor any    *)
(* later read of the call consumes input; on the tag of an alternative it  *)
(* stores that alternative and decodes only its payload.                   *)
C9_ChoiceDispatch ==
    (codec_pc = "decoded" /\ IsChoiceSample /\ Len(Input) >= 1) =>
        IF Input[1] \notin {1, 2}
        THEN /\ decoder_get_result(decoder) = -EBADCHOICE
             /\ decoder.copied = 1
             /\ DecodedChoice.choice = 0
        ELSE /\ DecodedChoice.choice = Input[1]
             /\ Len(Input) >= 2 =>
                  /\ DecodedChoice.value =
                        IF Input[1] = 1 THEN Input[2] ELSE Input[2] # 0
                  /\ compiled_type = ChoiceOfTwo =>
                        (decoder.copied = 2 /\ decoder_get_result(decoder) = 2)
                  /\ (compiled_type = ChoiceThenInteger /\ Len(Input) >= 3) =>
                        /\ decoder.copied = 3
                        /\ decoder_get_result(decoder) = 3
                        /\ dst_p[2].value = Input[3]
             /\ Len(Input) = 1 =>
                  (decoder.copied = 1 /\ decoder_get_result(decoder) = -EOUTOFDATA)

\* An unknown tag before a member that would have been read next.
C9_Witness ==
    /\ codec_pc = "decoded"
    /\ compiled_type = ChoiceThenInteger
    /\ Input = <<3, 1, 2>>
    /\ decoder_get_result(decoder) = -EBADCHOICE

\* The read of the length of an octet string, on the fresh decoder.
LengthRead ==
    LET start == decoder_init(Input, Len(Input))
    IN IF compiled_type.maximum < 128
       THEN LET r == decoder_read_integer_8(start)
            IN [self |-> r.self, value |-> U32(0, r.value)]
       ELSE decoder_read_length_determinant(start)

IsBoundedOctetString(type) ==
    type.kind = "OctetString" /\ type.minimum # type.maximum

(* C10: the decoder of an octet string with differing bounds reads the     *)
(* length (one byte when maximum < 128, a length determinant otherwise);   *)
(* a length above maximum aborts with EBADLENGTH and returns with no       *)
(* content byte read; otherwise exactly length content bytes are read.     *)
C10_OctetStringLength ==
    (/\ codec_pc = "decoded"
     /\ IsBoundedOctetString(compiled_type)
     /\ decoder_get_result(LengthRead.self) >= 0) =>
        LET len == LengthRead.value
            before == LengthRead.self
        IN IF U32GreaterThan(len, compiled_type.maximum)
           THEN /\ decoder_get_result(decoder) = -EBADLENGTH
                /\ returned
                /\ decoder.copied = before.copied
                /\ dst_p.buf = <<>>
           ELSE IF before.pos + ToSize(len) <= Len(Input)
           THEN /\ decoder_get_result(decoder) = before.pos + ToSize(len)
                /\ decoder.copied = before.copied + ToSize(len)
                /\ dst_p.buf = SubSeq(Input, before.pos + 1, before.pos + ToSize(len))
           ELSE /\ decoder_get_result(decoder) = -EOUTOFDATA
                /\ decoder.copied = before.copied

\* A length determinant of two bytes above the maximum, and content bytes
\* that stay unread.
C10_Witness ==
    /\ codec_pc = "decoded"
    /\ compiled_type = OctetString(1, 130)
    /\ Input = <<129, 131, 1, 1>>
    /\ decoder_get_result(decoder) = -EBADLENGTH
    /\ decoder.copied = 2

\* A length within the bounds and its content.
C10_WitnessRead ==
    /\ codec_pc = "decoded"
    /\ compiled_type = OctetString(1, 130)
    /\ Input = <<129, 2, 3, 1>>
    /\ dst_p = [length |-> U32(0, 2), buf |-> <<3, 1>>]

----------------------------------------------------------------------------
(* Claims about the runtime primitives (SpecRuntime).                      *)

(* C5: once encoder_alloc or decoder_free has failed, every later call on  *)
(* that context reports failure too and leaves the context as it is: the   *)
(* latched error code, the output buffer and the count of bytes copied to  *)
(* or from the buffer do not change.                                       *)
C5_FailureLatched ==
    [][/\ encoder.size = -ENOMEM =>
            (encoder' = encoder /\ last_alloc'.pos < 0)
       /\ decoder.size = -EOUTOFDATA =>
            (decoder' = decoder /\ last_free'.pos < 0)]_vars

\* A decoder that had read input has failed and has then been asked for
\* zero bytes: a request for zero bytes fails only on a context that has
\* failed before.
C5_Witness ==
    /\ decoder.size = -EOUTOFDATA
    /\ last_free = [size |-> 0, pos |-> -EOUTOFDATA]
    /\ decoder.copied > 0

\* The same on the encoder's side.
C5_EncoderWitness ==
    /\ encoder.size = -ENOMEM
    /\ last_alloc = [size |-> 0, pos |-> -ENOMEM]
    /\ encoder.copied > 0

----------------------------------------------------------------------------
(* Claims about the insertion rule of the dependency orderer (SpecSort).   *)

\* The 1-based positions of the placed units that use the unit.
UsersOf(placed, user_type) ==
    {i \in 1..Len(placed) :
        user_type_name_tuple(user_type) \in placed[i].used_user_types}

\* The list without its element at position k.
Without(s, k) == SubSeq(s, 1, k - 1) \o SubSeq(s, k + 1, Len(s))

\* One iteration of the outer loop: the unit goes right behind the last
\* placed unit that uses it, to the front when there is none, and the
\* units placed before keep their order.
InsertedAfterLastUser ==
    next_user_type' = next_user_type + 1 =>
        LET user_type == user_types[next_user_type]
            users == UsersOf(reversed_sorted_user_types, user_type)
            k == IF users = {} THEN 0 ELSE Max(users)
        IN /\ Len(reversed_sorted_user_types') = Len(reversed_sorted_user_types) + 1
           /\ reversed_sorted_user_types'[k + 1] = user_type
           /\ Without(reversed_sorted_user_types', k + 1) = reversed_sorted_user_types
           /\ \A i \in (k + 2)..Len(reversed_sorted_user_types') :
                user_type_name_tuple(user_type)
                    \notin reversed_sorted_user_types'[i].used_user_types

\* The position in the returned order of the unit at position i of the input.
ReturnedAt(i) ==
    CHOOSE h \in 1..Len(sorted_user_types) : sorted_user_types[h] = user_types[i]

\* A unit precedes every unit that uses it and comes earlier in the input.
BeforeEarlierUsers ==
    sort_pc = "returned" =>
        /\ sorted_user_types = Reverse(reversed_sorted_user_types)
        /\ \A i \in 1..Len(user_types) : \A j \in (i + 1)..Len(user_types) :
             user_type_name_tuple(user_types[j]) \in user_types[i].used_user_types
                => ReturnedAt(j) < ReturnedAt(i)

(* C18: every new unit is inserted into the working list immediately after *)
(* the last placed unit whose used_user_types holds its identity, or at    *)
(* the front when there is none; the placed units keep their relative      *)
(* order; the result is the reverse of the working list, so a unit         *)
(* precedes every unit that uses it and comes earlier in the base order.   *)
C18_InsertionRule ==
    [][InsertedAfterLastUser]_vars /\ []BeforeEarlierUsers

\* Base order A, B, C with B using C: C went between B and A.
C18_Witness ==
    /\ sort_pc = "returned"
    /\ Len(user_types) = 3
    /\ reversed_sorted_user_types = <<user_types[2], user_types[3], user_types[1]>>
    /\ user_type_name_tuple(user_types[3]) \in user_types[2].used_user_types

\* A second run of the function on the same argument.
RECURSIVE SecondRun(_, _, _)
SecondRun(input, i, placed) ==
    IF i > Len(input) THEN Reverse(placed)
    ELSE SecondRun(input, i + 1,
                   ListInsert(placed, insert_index(placed, input[i]), input[i]))

----------------------------------------------------------------------------
(* Claims about the cursor and the reads after a failure (SpecRuntime).    *)

\* The step is an append of last_alloc'.size bytes on an encoder with no
\* error latched (an abort of the generated code latches EBADCHOICE).
AppendStep ==
    /\ call = "encode"
    /\ encoder.size >= 0
    /\ encoder'.size # -EBADCHOICE

\* The step is a decoder_read_bytes of last_free'.size bytes on a decoder
\* with no error latched.
ReadBytesStep ==
    /\ call = "decode"
    /\ decoder.size >= 0
    /\ decoder'.size \notin {-EBADCHOICE, -EBADLENGTH}
    /\ read_value' = NoValue

\* A successful allocate advances pos by n and writes buf_p[pos..pos+n-1]
\* only; a request beyond the capacity leaves the buffer as it is.
AllocateWithinCapacity ==
    AppendStep =>
        LET n == last_alloc'.size
        IN IF encoder.pos + n <= encoder.size
           THEN /\ last_alloc'.pos = encoder.pos
                /\ encoder'.pos = encoder.pos + n
                /\ encoder'.size = encoder.size
                /\ encoder'.copied = encoder.copied + n
                /\ \A i \in 1..Len(encoder.buf_p) :
                     (i <= encoder.pos \/ i > encoder.pos + n)
                        => encoder'.buf_p[i] = encoder.buf_p[i]
           ELSE /\ last_alloc'.pos < 0
                /\ encoder'.buf_p = encoder.buf_p
                /\ encoder'.copied = encoder.copied

\* A successful free advances pos by n and reads buf_p[pos..pos+n-1] only;
\* a request beyond the input reads nothing.
FreeWithinInput ==
    ReadBytesStep =>
        LET n == last_free'.size
        IN IF decoder.pos + n <= decoder.size
           THEN /\ last_free'.pos = decoder.pos
                /\ decoder'.pos = decoder.pos + n
                /\ decoder'.size = decoder.size
                /\ decoder'.copied = decoder.copied + n
                /\ read_buf' = SubSeq(decoder.buf_p, decoder.pos + 1, decoder.pos + n)
           ELSE /\ last_free'.pos < 0
                /\ decoder'.copied = decoder.copied
         /\ decoder'.buf_p = decoder.buf_p

\* While no error is latched the cursor stays within the buffer, whose
\* length is the size given to init.
CursorWithinBuffer ==
    /\ encoder.size >= 0 =>
         (0 <= encoder.pos /\ encoder.pos <= encoder.size
          /\ Len(encoder.buf_p) = encoder.size /\ encoder.copied <= encoder.pos)
    /\ decoder.size >= 0 =>
         (0 <= decoder.pos /\ decoder.pos <= decoder.size
          /\ Len(decoder.buf_p) = decoder.size /\ decoder.copied <= decoder.pos)

(* C20: while no error is latched 0 <= pos <= size; a successful           *)
(* allocate/free of n bytes advances pos by exactly n and touches only     *)
(* the buffer indexes pos..pos+n-1; a request with pos + n > size leaves   *)
(* the buffer unchanged and touches no index >= size.                      *)
C20_CursorBounds ==
    []CursorWithinBuffer /\ [][AllocateWithinCapacity /\ FreeWithinInput]_vars

\* An append has filled the buffer to its last byte.
C20_Witness ==
    /\ call = "encode"
    /\ encoder.size = MaxSize
    /\ encoder.pos = MaxSize
    /\ last_alloc = [size |-> MaxRequest, pos |-> MaxSize - MaxRequest]
    /\ encoder.buf_p[MaxSize] = 255

\* The same for a read that has consumed the last byte of the input.
C20_DecoderWitness ==
    /\ call = "decode"
    /\ decoder.pos = MaxSize
    /\ last_free = [size |-> MaxRequest, pos |-> MaxSize - MaxRequest]
    /\ Len(read_buf) = MaxRequest

\* The step is an abort of the generated code; the steps that are neither
\* that nor a read of a value are calls of decoder_read_bytes.
AbortStep ==
    decoder.size >= 0 /\ decoder'.size \in {-EBADCHOICE, -EBADLENGTH}

AnyReadBytesStep ==
    call = "decode" /\ read_value' = NoValue /\ ~AbortStep

\* The step is a read of an integer, a bool or a length.
ReadValueStep ==
    call = "decode" /\ read_value' # NoValue /\ ~AbortStep

\* A decoder_read_bytes that cannot be served fills its destination with
\* zeros and copies nothing.
ZeroFilledBytes ==
    (AnyReadBytesStep /\ decoder.pos + last_free'.size > decoder.size) =>
        /\ read_buf' = ZeroBuffer(last_free'.size)
        /\ decoder'.copied = decoder.copied
        /\ decoder'.size < 0

\* On a decoder that has failed every integer, bool and length read
\* returns 0 or false and copies nothing.
ZeroAfterFailure ==
    (ReadValueStep /\ decoder.size < 0) =>
        /\ read_value'.value = U32(0, 0)
        /\ read_value'.flag = FALSE
        /\ decoder' = decoder

\* A read of 8, 16 or 32 bits that exceeds the remaining input returns 0.
ZeroOnUnderflow ==
    (/\ ReadValueStep
     /\ decoder.size >= 0
     /\ decoder'.size = -EOUTOFDATA
     /\ read_value'.op \in {"integer_8", "integer_16", "integer_32", "bool"}) =>
        /\ read_value'.value = U32(0, 0)
        /\ read_value'.flag = FALSE
        /\ decoder'.copied = decoder.copied

----------------------------------------------------------------------------
(* Claims about the reads of lengths and integers (SpecLength,             *)
(* SpecInteger).                                                           *)

\* The uint32_t that up to four bytes hold, most significant byte first.
BigEndian(bytes) ==
    LET n == Len(bytes)
        byte(i) == IF i > n THEN 0 ELSE bytes[n + 1 - i]
    IN U32(byte(4) * 256 + byte(3), byte(2) * 256 + byte(1))

(* C12: decoder_read_length_determinant reads one byte; with the top bit   *)
(* clear the byte is the result; otherwise the low 7 bits, when 1..4,      *)
(* give the number of following bytes read big-endian as the result; for   *)
(* any other low 7 bits (0, 5..127) the result is 0xFFFFFFFF and no byte   *)
(* beyond the first is consumed.                                           *)
C12_LengthDeterminantRead ==
    length_pc = "read" =>
        LET first == decoder.buf_p[1]
            n == first % 128
        IN IF first < 128
           THEN /\ decoded_length = U32(0, first)
                /\ decoder.pos = 1 /\ decoder.copied = 1
           ELSE IF n \in 1..4
           THEN Len(decoder.buf_p) >= 1 + n =>
                  /\ decoded_length = BigEndian(SubSeq(decoder.buf_p, 2, 1 + n))
                  /\ decoder.pos = 1 + n /\ decoder.copied = 1 + n
           ELSE /\ decoded_length = U32(65535, 65535)
                /\ decoder.pos = 1 /\ decoder.copied = 1

\* Low 7 bits of 5 with bytes following: the sentinel, one byte consumed.
C12_Witness ==
    /\ length_pc = "read"
    /\ decoder.buf_p = <<133, 1, 1, 1, 1>>
    /\ decoded_length = U32(65535, 65535)
    /\ decoder.pos = 1

\* Three following bytes read big-endian.
C12_WitnessThree ==
    /\ length_pc = "read"
    /\ decoder.buf_p = <<131, 1, 128, 255>>
    /\ decoded_length = U32(1, 128 * 256 + 255)
    /\ decoder.pos = 4

\* length < 2^(8 * width), for the widths 1..4.
FitsWidth ==
    CASE width = 1 -> length.hi = 0 /\ length.lo < 256
      [] width = 2 -> length.hi = 0
      [] width = 3 -> length.hi < 256
      [] OTHER -> TRUE

\* The bytes of the value, most significant first, in width bytes.
BytesOfValue ==
    SubSeq(<<length.hi \div 256, length.hi % 256, length.lo \div 256, length.lo % 256>>,
           5 - width, 4)

\* The widths 1..4: the value big-endian in exactly that many bytes, and
\* read back.
WidthsOneToFour ==
    (width \in 1..4 /\ FitsWidth) =>
        /\ length_pc \in {"appended", "integer_read"} =>
             (Encoded(encoder) = BytesOfValue /\ encoder.pos = width)
        /\ length_pc = "integer_read" =>
             (decoded_length = length /\ decoder.pos = width)

\* The bytes consumed are the bytes produced.
WidthsAgree ==
    length_pc = "integer_read" => decoder.pos = encoder.pos

(* C17: for the widths 1..4 and a value below 2^(8w)                       *)
(* encoder_append_integer appends exactly w bytes holding the value        *)
(* big-endian and decoder_read_integer returns the value from them; for    *)
(* every width argument 0..255 the two agree on the number of bytes        *)
(* produced and consumed.                                                  *)
C17_IntegerWidths ==
    WidthsOneToFour /\ WidthsAgree

----------------------------------------------------------------------------
(* Claims about the sequence-of with a count that varies (SpecCodec).      *)

IsBoundedSequenceOf(type) ==
    type.kind = "SequenceOf" /\ ~IsFixedSequenceOf(type)

\* ceil(bit_length(maximum) / 8), by the powers of 256.
LengthBytesOf(type) ==
    IF type.maximum_high > 0 THEN 5
    ELSE IF type.maximum < 256 THEN 1
    ELSE IF type.maximum < 65536 THEN 2
    ELSE IF type.maximum < 16777216 THEN 3
    ELSE 4

\* The encoding of a boolean element.
BoolByte(value) == IF value THEN 255 ELSE 0

\* The encoder: the byte w, the count in exactly w bytes, count elements.
CountWritten ==
    codec_pc \in {"encoded", "round_trip"} =>
        LET w == LengthBytesOf(compiled_type)
            count == src_p.length.lo
        IN /\ encoder.pos = 1 + w + count
           /\ Encoded(encoder)[1] = w
           /\ BigEndian(SubSeq(Encoded(encoder), 2, 1 + w)) = src_p.length
           /\ \A i \in 1..count :
                Encoded(encoder)[1 + w + i] = BoolByte(src_p.elements[i])

\* The decoder recovers the count and the elements of the encoder.
CountRecovered ==
    codec_pc = "round_trip" =>
        /\ dst_p.length = src_p.length
        /\ dst_p.elements = src_p.elements
        /\ decoder_get_result(decoder) = encoder_get_result(encoder)

\* The decoder on any input that holds an indicator byte of 1..4 and the
\* count: abort and no element when the count is above the maximum, count
\* elements otherwise.
CountVerified ==
    (/\ codec_pc = "decoded"
     /\ Len(Input) >= 1
     /\ Input[1] \in 1..4
     /\ Len(Input) >= 1 + Input[1]) =>
        LET count == BigEndian(SubSeq(Input, 2, 1 + Input[1]))
        IN /\ dst_p.length = count
           /\ IF U32GreaterThan(count, compiled_type.maximum)
              THEN /\ decoder_get_result(decoder) = -EBADLENGTH
                   /\ returned
                   /\ dst_p.elements = <<>>
                   /\ decoder.copied = 1 + Input[1]
              ELSE /\ Len(dst_p.elements) = ToSize(count)
                   /\ Len(Input) >= 1 + Input[1] + ToSize(count) =>
                        decoder_get_result(decoder) = 1 + Input[1] + ToSize(count)

(* C15: for a sequence-of whose size bounds differ the encoder writes one  *)
(* byte w = ceil(bit_length(maximum)/8), the count big-endian in exactly w *)
(* bytes and count elements; the decoder reads the indicator byte and the  *)
(* count in that many bytes, aborts with EBADLENGTH and decodes no element *)
(* when the count is above the maximum and decodes count elements          *)
(* otherwise; for every maximum >= 1 and every count <= maximum the count  *)
(* takes exactly w bytes and the decoder recovers it.                      *)
C15_BoundedSequenceOf ==
    IsBoundedSequenceOf(compiled_type) =>
        CountWritten /\ CountRecovered /\ CountVerified

\* The same with the maxima below 2^32 only.
C15_BelowTwoTo32 ==
    (IsBoundedSequenceOf(compiled_type) /\ compiled_type.maximum_high = 0) =>
        CountWritten /\ CountRecovered /\ CountVerified

----------------------------------------------------------------------------
(* Claims about the members of a sequence (SpecCodec).                     *)

\* A sequence whose members are one-byte integers.
IsIntegerSequence(type) ==
    /\ type.kind = "Sequence"
    /\ \A j \in 1..Len(type.root_members) : type.root_members[j].type = Integer8

\* The bit of member j in the bitmask bytes that start a buffer.
BitOfMember(type, buf, j) ==
    LET i == OptionalIndex(type, j)
    IN BitOf(buf[(i \div 8) + 1], 7 - (i % 8)) = 1

\* The payload bytes that follow the bitmask bytes of buf, for the members
\* from j on, in declaration order: a mandatory member always, another
\* member exactly when its bit in buf is set.
RECURSIVE PayloadOf(_, _, _, _)
PayloadOf(type, value, buf, j) ==
    IF j > Len(type.root_members) THEN <<>>
    ELSE (IF ~IsOptional(type.root_members[j]) \/ BitOfMember(type, buf, j)
          THEN <<value[j].value>> ELSE <<>>)
         \o PayloadOf(type, value, buf, j + 1)

\* What the decoder owes for the members from j on, the next payload byte
\* being buf[next]: the members stored and the position reached.
RECURSIVE MembersOwed(_, _, _, _, _)
MembersOwed(type, buf, j, next, stored) ==
    IF j > Len(type.root_members) THEN [dst |-> stored, pos |-> next - 1]
    ELSE LET member == type.root_members[j]
             byte == IF next <= Len(buf) THEN buf[next] ELSE 0
         IN IF ~IsOptional(member)
            THEN MembersOwed(type, buf, j + 1, next + 1,
                    Append(stored, [is_present |-> FALSE, value |-> byte]))
            ELSE IF BitOfMember(type, buf, j)
            THEN MembersOwed(type, buf, j + 1, next + 1,
                    Append(stored, [is_present |-> member.optional, value |-> byte]))
            ELSE MembersOwed(type, buf, j + 1, next,
                    Append(stored,
                           [is_present |-> FALSE,
                            value |-> IF member.optional THEN 0
                                      ELSE member.default[1]]))

\* The encoder: a member with a default has its bit set exactly when its
\* value is not the default, and its payload written exactly then.
DefaultMembersWritten ==
    codec_pc \in {"encoded", "round_trip"} =>
        LET out == Encoded(encoder)
            k == NumberOfOptionals(compiled_type)
        IN /\ \A j \in 1..Len(compiled_type.root_members) :
                compiled_type.root_members[j].default # <<>> =>
                    (BitOfMember(compiled_type, out, j)
                     <=> src_p[j].value # compiled_type.root_members[j].default[1])
           /\ SubSeq(out, CeilDiv8(k) + 1, Len(out))
                = PayloadOf(compiled_type, src_p, out, 1)

\* The decoder, on an input that holds the bitmask and every payload owed.
DefaultMembersRead ==
    (/\ codec_pc \in {"round_trip", "decoded"}
     /\ Len(Input) >= CeilDiv8(NumberOfOptionals(compiled_type))) =>
        LET owed == MembersOwed(compiled_type, Input,
                                1, CeilDiv8(NumberOfOptionals(compiled_type)) + 1, <<>>)
        IN owed.pos <= Len(Input) =>
             /\ dst_p = owed.dst
             /\ decoder_get_result(decoder) = owed.pos
             /\ decoder.copied = owed.pos

(* C16: for a sequence member with a default value the encoder writes the  *)
(* payload exactly when it sets the presence bit (value != default); the   *)
(* decoder reads the payload exactly when the bit it read is set, and with *)
(* the bit clear assigns the literal default and consumes no byte for the  *)
(* member; members are encoded and decoded in declaration order after the  *)
(* bitmask, the mandatory ones unconditionally.                            *)
C16_DefaultMembers ==
    IsIntegerSequence(compiled_type) =>
        DefaultMembersWritten /\ DefaultMembersRead

\* Bit clear on the input: the default 5 is stored, the byte that follows
\* the bitmask goes to the mandatory member.
C16_Witness ==
    /\ codec_pc = "decoded"
    /\ compiled_type = DefaultThenMandatory
    /\ Input = <<1, 3>>
    /\ dst_p = <<[is_present |-> FALSE, value |-> 5], [is_present |-> FALSE, value |-> 3]>>
    /\ decoder_get_result(decoder) = 2

\* A default member at its default between encoded members: bit clear, no
\* payload, and the default back after the decode.
C16_RoundTripWitness ==
    /\ codec_pc = "round_trip"
    /\ compiled_type = Sequence(PatternMembers("mixed", 3))
    /\ src_p[2].value = 5
    /\ src_p[1].is_present /\ src_p[4].is_present
    /\ Encoded(encoder) = <<160, 7, 9, 7>>
    /\ dst_p = src_p

----------------------------------------------------------------------------
(* Claims about the round trip (SpecCodec).                                *)

\* The decoder on the bytes of the encoder: the value back, exactly the
\* bytes produced consumed, no error latched.
RoundTrip ==
    codec_pc = "round_trip" =>
        /\ dst_p = src_p
        /\ decoder_get_result(decoder) = encoder_get_result(encoder)
        /\ decoder.copied = encoder.copied
        /\ decoder.size >= 0

(* C11: for every supported kind of type (integer of 8, 16, 32, 64 bits,   *)
(* boolean, enumerated, null, fixed and bounded octet string, sequence     *)
(* with mandatory, optional and default members, choice with one-byte      *)
(* tags, fixed and bounded sequence-of, user type reference) and every     *)
(* value within the constraints of the type, the generated decoder on the  *)
(* bytes of the generated encoder yields the value, consumes exactly those *)
(* bytes and latches no error.                                             *)
C11_RoundTrip ==
    RoundTrip

\* The same with the sequence-of of a maximum of 2^32 left out.
C11_BelowTwoTo32 ==
    (compiled_type.kind = "SequenceOf" => compiled_type.maximum_high = 0) => RoundTrip

----------------------------------------------------------------------------
(* Claims about the units generate emits (SpecGenerate).                   *)

\* The identities of the units emitted, once the orderer has returned.
EmittedIdentities ==
    {user_type_name_tuple(sorted_user_types[i]) : i \in 1..Len(sorted_user_types)}

UnitsClosed ==
    \A i \in 1..Len(sorted_user_types) :
        sorted_user_types[i].used_user_types \subseteq EmittedIdentities

(* C13: every type identity in the used_user_types of a unit generate      *)
(* emits is itself emitted as a unit of the same run, also when generate   *)
(* drops a type whose layout generation raised Error (a REAL that is       *)
(* neither binary32 nor binary64) while another type references it.        *)
C13_EmittedUnitsClosed ==
    (generate_pc = "sort" /\ sort_pc = "returned") => UnitsClosed

\* The same for the runs in which no type named by another is dropped.
C13_NoneDropped ==
    (/\ generate_pc = "sort"
     /\ sort_pc = "returned"
     /\ \A t \in compiled : t.fmt_is_none =>
            \A u \in compiled :
                u.fmt_is_none \/ <<t.type_name, t.module_name>> \notin u.references)
    => UnitsClosed

====
